---- MODULE Spec2Model ----
(***************************************************************************)
(* Log-normal stochastic-volatility pricers of stochvolmodels              *)
(* (pricers/logsv_pricer.py): Monte-Carlo simulators and chain pricers,    *)
(* the affine-expansion chain pricer and the calibrator.                   *)
(*                                                                         *)
(* Real numbers are fixed-point integers: a value v stands for v / Scale.  *)
(* Step sizes dt stand for dt / (Scale * Scale) years, times (maturities)  *)
(* are whole ticks of 1 / TicksPerYear years.                              *)
(***************************************************************************)
EXTENDS Integers, Sequences, FiniteSets, TLC

VARIABLES
    entry,              \* the operation being run
    pc,                 \* its position
    exc,                \* the exception that ended it, "none" otherwise
    arg,                \* its arguments
    rng,                \* state of the process-wide numpy generator
    W0s, W1s, dts, nb_steps,  \* the frozen randoms of a chain valuation
    x0, sigma0, qvar0,  \* chain pricer: state carried across maturities
    ttm0,               \* chain pricer: previous maturity
    idx,                \* chain pricer: number of maturities done
    frame,              \* locals of the simulator call in progress
    sim_calls,          \* the simulator / engine calls made so far
    option_prices_ttm,  \* chain pricer: output list
    vol_scaler,         \* transform pricer: scale of the transform grid
    grids,              \* transform pricer: phi_grid, psi_grid, theta_grid
    grid_builds,        \* transform pricer: number of grids built so far
    a_t0,               \* transform pricer: expansion coefficient state
    log_mgf_grid,       \* transform pricer: log-MGF grid of the current slice
    model_prices_ttms,  \* transform pricer: output list
    weights,            \* calibrator: weights of the quotes, slice by slice
    p0,                 \* calibrator: initial trial vector
    constraints,        \* calibrator: inequality constraints handed to minimize
    evals,              \* calibrator: objective evaluations made by minimize
    res,                \* calibrator: result of minimize
    fit_params          \* calibrator: returned parameters

afe_vars == <<vol_scaler, grids, grid_builds, a_t0, log_mgf_grid, model_prices_ttms>>
calib_vars == <<weights, p0, constraints, evals, res, fit_params>>
chain_vars == <<W0s, W1s, dts, nb_steps, x0, sigma0, qvar0, ttm0, idx, frame, sim_calls,
                option_prices_ttm>>

vars == <<entry, pc, exc, arg, rng, W0s, W1s, dts, nb_steps, x0, sigma0, qvar0,
          ttm0, idx, frame, sim_calls, option_prices_ttm, afe_vars, calib_vars>>

----------------------------------------------------------------------------
(* Bounds of the model *)

MaxPath == 2            \* nb_path ranges over 1..MaxPath
MaxChain == 3           \* longest chain of maturities
RngMod == 8             \* number of states of the generator
NbGrid == 2             \* number of points of the transform grid
MaxEvals == 2           \* objective evaluations of one minimisation

(* Program constants *)

NbStepsPerYearDefault == 360

(* Units *)

Scale == 1000
TicksPerYear == 2 * NbStepsPerYearDefault
Half == Scale \div 2
One == Scale

----------------------------------------------------------------------------
(* Fixed-point arithmetic standing for numpy's float arithmetic *)

Mul(a, b) == (a * b) \div Scale
Div(a, b) == (a * Scale) \div b
\* a value times a step size: a * dt / Scale^2, split to stay within 32 bits
MulDt(a, dt) == (a * (dt \div Scale)) \div Scale + (a * (dt % Scale)) \div (Scale * Scale)
Max(a, b) == IF a >= b THEN a ELSE b
Min(a, b) == IF a <= b THEN a ELSE b
Abs(a) == IF a >= 0 THEN a ELSE -a

RECURSIVE ISqrtFrom(_, _)
ISqrtFrom(n, g) ==
    LET h == (g + n \div g) \div 2
    IN  IF h >= g THEN g ELSE ISqrtFrom(n, h)

ISqrt(n) == IF n <= 0 THEN 0 ELSE ISqrtFrom(n, n)

\* np.sqrt(dt) of a step size: dt is in 1/Scale^2, the result in 1/Scale
SqrtDt(dt) == ISqrt(dt)

\* np.sqrt of a value in 1/Scale
Sqrt(a) == ISqrt(a * Scale)

EulerE == (2718 * Scale) \div 1000

ExpSeries(v) ==
    LET v2 == Mul(v, v)
        v3 == Mul(v2, v)
        v4 == Mul(v3, v)
        v5 == Mul(v4, v)
    IN  Scale + v + v2 \div 2 + v3 \div 6 + v4 \div 24 + v5 \div 120

RECURSIVE ExpPos(_)
ExpPos(v) == IF v > Scale THEN Mul(EulerE, ExpPos(v - Scale)) ELSE ExpSeries(v)

RECURSIVE Exp(_)
\* np.exp
Exp(v) ==
    IF v < -7 * Scale THEN Div(Exp(v + Scale), EulerE)
    ELSE IF v < 0 THEN (Scale * Scale) \div ExpPos(-v) ELSE ExpPos(v)

LogSeries(s) ==
    LET y  == Div(s - Scale, s + Scale)
        y2 == Mul(y, y)
        y3 == Mul(y2, y)
        y5 == Mul(y3, y2)
        y7 == Mul(y5, y2)
    IN  2 * (y + y3 \div 3 + y5 \div 5 + y7 \div 7)

RECURSIVE Log(_)
\* np.log of a positive value
Log(s) ==
    IF s >= EulerE THEN Scale + Log(Div(s, EulerE))
    ELSE IF s < Scale THEN Log(Mul(s, EulerE)) - Scale
    ELSE LogSeries(s)

RECURSIVE SumSeq(_)
SumSeq(s) == IF s = <<>> THEN 0 ELSE Head(s) + SumSeq(Tail(s))

----------------------------------------------------------------------------
(* The process-wide generator behind np.random.normal and set_seed *)

NextRng(r) == (5 * r + 3) % RngMod

RECURSIVE RngMap(_)
\* k applications of NextRng as one map r -> a * r + c, by repeated squaring
RngMap(k) ==
    IF k = 0 THEN [a |-> 1, c |-> 0]
    ELSE LET h  == RngMap(k \div 2)
             sq == [a |-> (h.a * h.a) % RngMod, c |-> (h.a * h.c + h.c) % RngMod]
         IN  IF k % 2 = 0 THEN sq
             ELSE [a |-> NextRng(sq.a) - NextRng(0), c |-> NextRng(sq.c)]

\* the generator state after k draws from state r
RngAfter(r, k) == (RngMap(k).a * r + RngMap(k).c) % RngMod

\* the standard normal deviate delivered in generator state r
Normal(r) == ((r % 4) * 2 - 3) * Half

\* np.random.normal(0, 1, size=(n, p)) started in state r
RandomNormal(r, n, p) ==
    [t \in 1..n |-> [q \in 1..p |-> Normal(RngAfter(r, (t - 1) * p + q))]]

\* set_seed(seed)
SetSeed(seed) == seed % RngMod

----------------------------------------------------------------------------
(* Time grid *)

\* set_time_grid(ttm, nb_steps_per_year): uniform grid on [0, ttm]
SetTimeGrid(ttm, nb_steps_per_year) ==
    LET nb == (nb_steps_per_year * ttm + TicksPerYear - 1) \div TicksPerYear
    IN  [nb_steps |-> nb,
         dt       |-> (ttm * Scale * Scale) \div (nb * TicksPerYear),
         grid_end |-> ttm]

----------------------------------------------------------------------------
(* Inputs *)

\* LOGSV_BTC_PARAMS and the parameters of the rough-volatility example
LOGSV_BTC_PARAMS ==
    [sigma0 |-> 838, theta |-> 1041, kappa1 |-> 3184, kappa2 |-> 3058,
     beta |-> 151, volvol |-> 1846]

LOGSV_ALT_PARAMS ==
    [sigma0 |-> 500, theta |-> 600, kappa1 |-> 1000, kappa2 |-> 400,
     beta |-> -500, volvol |-> 750]

ParamSet == {LOGSV_BTC_PARAMS, LOGSV_ALT_PARAMS}

\* maturities, in ticks (half days): one day, two days, ...
TtmSet == {2 * k : k \in 1..MaxChain}

RECURSIVE IsIncreasing(_)
IsIncreasing(s) ==
    Len(s) <= 1 \/ (s[1] < s[2] /\ IsIncreasing(Tail(s)))

\* strictly increasing chains of maturities
Chains ==
    UNION {{s \in [1..n -> TtmSet] : IsIncreasing(s)} : n \in 1..MaxChain}

EtaSet == {One, One + One \div 5}
SeedSet == {10, 16}
PathCounts == 1..MaxPath
StepsPerYearSet == {NbStepsPerYearDefault, 2 * NbStepsPerYearDefault}

NoFrame == [fn |-> "none"]
Vec(n, v) == [q \in 1..n |-> v]

----------------------------------------------------------------------------
(* simulate_logsv_x_vol_terminal *)

\* the drift adjustment with the backbone added to beta
TerminalMeasureAdditive(is_spot_measure, beta, vol_backbone_eta) ==
    IF is_spot_measure
    THEN [alpha |-> -One, adj |-> 0]
    ELSE [alpha |-> One, adj |-> beta + vol_backbone_eta]

\* the measure flag's drift adjustment (alpha, adj) of the terminal simulator
TerminalMeasure(is_spot_measure, beta, vol_backbone_eta) ==
    IF is_spot_measure
    THEN [alpha |-> -One, adj |-> 0]
    ELSE [alpha |-> One, adj |-> Mul(beta, vol_backbone_eta)]

\* the drift of the log-vol per unit of time at vol s
LogVolDrift(par, adj, s) ==
    (Div(Mul(par.kappa1, par.theta), s) - par.kappa1)
    + Mul(par.kappa2, par.theta - s) + Mul(adj, s)
    - Mul(Half, Mul(par.beta, par.beta) + Mul(par.volvol, par.volvol))

\* the vol of a path from its log-vol state
VolOfLogVolNoExp(vol_var) == vol_var
VolOfLogVol(vol_var) == Exp(vol_var)

\* one pass of the time loop for one path: f holds x0, vol_var, sigma0, qvar0
TerminalStepPath(f, q, w0, w1) ==
    LET eta2       == Mul(f.eta, f.eta)
        sigma0_2dt == MulDt(Mul(Mul(eta2, f.sigma0[q]), f.sigma0[q]), f.dt)
        x1         == f.x0[q] + Mul(Mul(f.alpha, Half), sigma0_2dt)
                        + Mul(Mul(f.eta, f.sigma0[q]), w0)
        v1         == f.vol_var[q]
                        + MulDt(LogVolDrift(f.par, f.adj, f.sigma0[q]), f.dt)
                        + Mul(f.par.beta, w0) + Mul(f.par.volvol, w1)
        s1         == VolOfLogVol(v1)
        q1         == f.qvar0[q]
                        + Mul(Half, sigma0_2dt + MulDt(Mul(Mul(eta2, s1), s1), f.dt))
    IN  [x0 |-> x1, vol_var |-> v1, sigma0 |-> s1, qvar0 |-> q1]

\* the body of the time loop, all paths at once
TerminalStep(f) ==
    LET t == f.t_ + 1
        r == [q \in 1..f.nb_path |->
                 TerminalStepPath(f, q, f.W0_[t][q], f.W1_[t][q])]
    IN  [f EXCEPT !.t_ = t,
                  !.x0 = [q \in 1..f.nb_path |-> r[q].x0],
                  !.vol_var = [q \in 1..f.nb_path |-> r[q].vol_var],
                  !.sigma0 = [q \in 1..f.nb_path |-> r[q].sigma0],
                  !.qvar0 = [q \in 1..f.nb_path |-> r[q].qvar0]]

\* a (nb_steps, nb_path) block of randoms scaled by sqrt(dt)
Scaled(W, sdt) == [t \in 1..Len(W) |-> [q \in 1..Len(W[t]) |-> Mul(sdt, W[t][q])]]

\* the simulator up to its time loop.  W0 = W1 = <<>> stands for None: the
\* increments are then drawn from the generator, state r, on the grid of ttm.
TerminalEnter(ttm, x, sigma, qvar, par, eta, is_spot_measure, nb_path, nb_steps_per_year, W0, W1, dt, r) ==
    LET fresh == W0 = <<>> /\ W1 = <<>>
        tg    == SetTimeGrid(ttm, nb_steps_per_year)
        dt_   == IF fresh THEN tg.dt ELSE dt
        sdt   == SqrtDt(dt_)
        n     == tg.nb_steps * nb_path
        m     == TerminalMeasure(is_spot_measure, par.beta, eta)
        xin   == IF Len(x) = 1 THEN Vec(nb_path, 0) ELSE x
        qin   == IF Len(qvar) = 1 THEN Vec(nb_path, 0) ELSE qvar
        sin   == IF Len(sigma) = 1 THEN Vec(nb_path, sigma[1]) ELSE sigma
    IN  [frame |->
            [fn |-> "simulate_logsv_x_vol_terminal",
             nb_path |-> nb_path, par |-> par, eta |-> eta, dt |-> dt_,
             alpha |-> m.alpha, adj |-> m.adj, t_ |-> 0,
             W0_ |-> Scaled(IF fresh THEN RandomNormal(r, tg.nb_steps, nb_path) ELSE W0, sdt),
             W1_ |-> Scaled(IF fresh THEN RandomNormal(RngAfter(r, n), tg.nb_steps, nb_path)
                                     ELSE W1, sdt),
             x0 |-> xin, qvar0 |-> qin, sigma0 |-> sin,
             vol_var |-> [q \in 1..nb_path |-> Log(sin[q])]],
         rng |-> IF fresh THEN RngAfter(r, 2 * n) ELSE r]

----------------------------------------------------------------------------
(* compute_mc_vars_payoff: undiscounted at-the-money call on the log-return *)

McPayoff(x) == Max(Exp(x) - One, 0)

ComputeMcVarsPayoff(x, sigma, qvar, ttm) ==
    SumSeq([q \in 1..Len(x) |-> McPayoff(x[q])]) \div Len(x)

----------------------------------------------------------------------------
(* get_randoms_for_chain_valuation *)

RECURSIVE RandomsLoop(_, _, _, _, _, _)
\* the loop over ttms from position k on; acc holds the four output lists
RandomsLoop(ttms, k, t0, nb_path, nb_steps_per_year, acc) ==
    IF k > Len(ttms) THEN acc
    ELSE LET tg == SetTimeGrid(ttms[k] - t0, nb_steps_per_year)
             n  == tg.nb_steps * nb_path
         IN  RandomsLoop(ttms, k + 1, tg.grid_end, nb_path, nb_steps_per_year,
                 [W0s |-> Append(acc.W0s, RandomNormal(acc.rng, tg.nb_steps, nb_path)),
                  W1s |-> Append(acc.W1s,
                                 RandomNormal(RngAfter(acc.rng, n), tg.nb_steps, nb_path)),
                  dts |-> Append(acc.dts, tg.dt),
                  nb_steps |-> Append(acc.nb_steps, tg.nb_steps),
                  rng |-> RngAfter(acc.rng, 2 * n)])

GetRandomsForChainValuation(ttms, nb_path, nb_steps_per_year, seed) ==
    RandomsLoop(ttms, 1, 0, nb_path, nb_steps_per_year,
                [W0s |-> <<>>, W1s |-> <<>>, dts |-> <<>>, nb_steps |-> <<>>,
                 rng |-> SetSeed(seed)])

----------------------------------------------------------------------------
(* simulate_vol_paths *)

\* the measure flag's drift adjustment (alpha, adj) of the vol-path simulator
VolPathsMeasure(is_spot_measure, beta) ==
    IF is_spot_measure
    THEN [alpha |-> -One, adj |-> 0]
    ELSE [alpha |-> One, adj |-> beta]

\* one pass of the time loop for one path
VolPathsStepPath(f, q, w1) ==
    LET vartheta2 == Mul(f.par.beta, f.par.beta) + Mul(f.par.volvol, f.par.volvol)
        v1 == f.vol_var[q]
                + MulDt(LogVolDrift(f.par, f.adj, f.sigma0[q]), f.dt)
                + Mul(Sqrt(vartheta2), w1)
    IN  [vol_var |-> v1, sigma0 |-> VolOfLogVol(v1)]

VolPathsStep(f) ==
    LET t == f.t_ + 1
        r == [q \in 1..f.nb_path |-> VolPathsStepPath(f, q, f.brownians[t][q])]
        s == [q \in 1..f.nb_path |-> r[q].sigma0]
    IN  [f EXCEPT !.t_ = t,
                  !.vol_var = [q \in 1..f.nb_path |-> r[q].vol_var],
                  !.sigma0 = s,
                  !.sigma_t = Append(f.sigma_t, s)]

\* the simulator up to its time loop; brownians = <<>> stands for None
VolPathsEnter(ttm, par, is_spot_measure, nb_path, nb_steps_per_year, brownians, r) ==
    LET tg == SetTimeGrid(ttm, nb_steps_per_year)
        m  == VolPathsMeasure(is_spot_measure, par.beta)
        b  == IF brownians = <<>>
              THEN Scaled(RandomNormal(r, tg.nb_steps, nb_path), SqrtDt(tg.dt))
              ELSE brownians
        s  == Vec(nb_path, par.sigma0)
    IN  [frame |->
            [fn |-> "simulate_vol_paths",
             nb_path |-> nb_path, par |-> par, dt |-> tg.dt, nb_steps |-> tg.nb_steps,
             alpha |-> m.alpha, adj |-> m.adj, t_ |-> 0, brownians |-> b,
             sigma0 |-> s, vol_var |-> [q \in 1..nb_path |-> Log(s[q])],
             sigma_t |-> <<s>>, grid_end |-> tg.grid_end],
         rng |-> IF brownians = <<>> THEN RngAfter(r, tg.nb_steps * nb_path) ELSE r,
         shape_ok |-> Len(b) = tg.nb_steps /\ \A t \in 1..Len(b) : Len(b[t]) = nb_path]

----------------------------------------------------------------------------
(* simulate_rough_logsv_x_vol_terminal *)

HSet == {450, 100, 700}

\* pos: the positivity projection
Pos(v) == Max(v, 0)

\* np.log of a step size and np.power(dt, a), a step-size power in step-size units
LogDt(dt) == Log(dt) - Log(Scale * Scale)
PowDt(dt, a) == Exp(Mul(a, LogDt(dt)) + Log(Scale * Scale))

\* approximat_kernel: weights c and decay rates gamm of the sum of exponentials
ApproximatKernel(alpha, n, dt, ttm) ==
    [c |-> <<One, Half>>, gamm |-> <<One, 100 * One>>]

\* covariance of the two kernel integrals over a step and its Cholesky factor
RoughCov(dt, alpha) ==
    [c00 |-> dt,
     c10 |-> Div(PowDt(dt, alpha + One), alpha + One),
     c11 |-> Div(PowDt(dt, 2 * alpha + One), 2 * alpha + One)]

Cholesky(cov) ==
    LET a00 == SqrtDt(cov.c00)
        a10 == cov.c10 \div a00
    IN  [a00 |-> a00, a10 |-> a10, a11 |-> SqrtDt(cov.c11 - a10 * a10)]

\* the value a time step stores for the vol, raw being the scheme's update
StepVolUnprojected(raw) == raw
StepVol(raw) == Pos(raw)

\* one pass of the time loop for one path
RoughStepPath(f, q) ==
    LET i        == f.i_ + 1
        eta2     == Mul(f.eta, f.eta)
        sigma2dt == MulDt(Mul(Mul(eta2, f.sigma_i[q]), f.sigma_i[q]), f.dt)
        x1       == f.x_i[q] + Mul(Half, sigma2dt)
                      + Mul(Mul(f.eta, f.sigma_i[q]), f.dW0s[i][q])
        drft     == Mul(f.par.kappa1 + Mul(f.par.kappa2, f.sigma_i[q]),
                        f.par.theta - f.sigma_i[q])
        vol      == Mul(f.total_vol, f.sigma_i[q])
        U1       == IF i = 1 THEN [j \in 1..Len(f.coeff1) |-> f.U[j][q]]
                    ELSE [j \in 1..Len(f.coeff1) |->
                             Mul(f.coeff2[j],
                                 f.U[j][q] + MulDt(f.drft_prev[q], f.dt)
                                   + Mul(f.vol_prev[q], f.dWs0[i - 1][q]))]
        lift     == SumSeq([j \in 1..Len(f.coeff1) |-> Mul(f.coeff1[j], U1[j])])
        s1       == StepVol(f.sigma0[q] + (IF i = 1 THEN 0 ELSE lift)
                        + MulDt(drft, f.drift_factor) + Mul(vol, f.dWs1[i][q]))
        q1       == f.qvar_i[q]
                      + Mul(Half, sigma2dt + MulDt(Mul(Mul(eta2, s1), s1), f.dt))
    IN  [x_i |-> x1, sigma_i |-> s1, qvar_i |-> q1, U |-> U1,
         drft_prev |-> drft, vol_prev |-> vol]

\* the body of the time loop, all paths at once
RoughStep(f) ==
    LET r == [q \in 1..f.nb_path |-> RoughStepPath(f, q)]
    IN  [f EXCEPT !.i_ = f.i_ + 1,
                  !.x_i = [q \in 1..f.nb_path |-> r[q].x_i],
                  !.sigma_i = [q \in 1..f.nb_path |-> r[q].sigma_i],
                  !.qvar_i = [q \in 1..f.nb_path |-> r[q].qvar_i],
                  !.U = [j \in 1..Len(f.coeff1) |-> [q \in 1..f.nb_path |-> r[q].U[j]]],
                  !.drft_prev = [q \in 1..f.nb_path |-> r[q].drft_prev],
                  !.vol_prev = [q \in 1..f.nb_path |-> r[q].vol_prev]]

IsShape(W, n, p) == Len(W) = n /\ \A t \in 1..Len(W) : Len(W[t]) = p

\* the simulator up to its time loop.  W1 is the pair of its two (steps, paths)
\* blocks; W0 = W1 = <<>> stands for None.  exc names the exception raised.
RoughEnter(ttm, x, sigma, qvar, par, H, eta, is_spot_measure, nb_path, nb_steps_per_year, W0, W1, r) ==
    LET fresh == W0 = <<>> /\ W1 = <<>>
        tg    == SetTimeGrid(ttm, nb_steps_per_year)
        n     == tg.nb_steps * nb_path
        W0a   == IF fresh THEN RandomNormal(r, tg.nb_steps, nb_path) ELSE W0
        W1a   == IF fresh
                 THEN <<RandomNormal(RngAfter(r, n), tg.nb_steps, nb_path),
                        RandomNormal(RngAfter(r, 2 * n), tg.nb_steps, nb_path)>>
                 ELSE W1
        alpha == H - Half
        cov   == RoughCov(tg.dt, alpha)
        A     == Cholesky(cov)
        ker   == ApproximatKernel(alpha, tg.nb_steps, tg.dt, ttm)
        xin   == IF Len(x) = 1 THEN Vec(nb_path, 0) ELSE x
        qin   == IF Len(qvar) = 1 THEN Vec(nb_path, 0) ELSE qvar
        sin   == IF Len(sigma) = 1 THEN Vec(nb_path, sigma[1]) ELSE sigma
        exc_  == IF eta # One THEN "AssertionError"
                 ELSE IF ~IsShape(W0a, tg.nb_steps, nb_path) THEN "AssertionError"
                 ELSE IF ~(Len(W1a) = 2 /\ IsShape(W1a[1], tg.nb_steps, nb_path)
                                        /\ IsShape(W1a[2], tg.nb_steps, nb_path))
                      THEN "AssertionError"
                 ELSE IF ~is_spot_measure THEN "AssertionError"
                 ELSE IF ~(-Half < alpha /\ alpha <= Half) THEN "AssertionError"
                 ELSE IF alpha > 0 THEN "NotImplementedError"
                 ELSE "none"
    IN  [exc |-> exc_,
         rng |-> IF fresh /\ eta = One THEN RngAfter(r, 3 * n) ELSE r,
         frame |->
            IF exc_ # "none" THEN NoFrame
            ELSE [fn |-> "simulate_rough_logsv_x_vol_terminal",
                  nb_path |-> nb_path, par |-> par, eta |-> eta, dt |-> tg.dt,
                  nb_steps |-> tg.nb_steps, i_ |-> 0,
                  total_vol |-> Sqrt(Mul(par.beta, par.beta) + Mul(par.volvol, par.volvol)),
                  dW0s |-> Scaled(W0a, SqrtDt(tg.dt)),
                  dWs0 |-> Scaled(W1a[1], A.a00),
                  dWs1 |-> [t \in 1..tg.nb_steps |-> [q \in 1..nb_path |->
                               Mul(A.a10, W1a[1][t][q]) + Mul(A.a11, W1a[2][t][q])]],
                  coeff1 |-> [j \in 1..Len(ker.c) |->
                                 Mul(ker.c[j], Exp(-MulDt(ker.gamm[j], tg.dt)))],
                  coeff2 |-> [j \in 1..Len(ker.c) |->
                                 Div(One, One + MulDt(ker.gamm[j], tg.dt))],
                  drift_factor |-> cov.c10,
                  U |-> [j \in 1..Len(ker.c) |-> Vec(nb_path, 0)],
                  drft_prev |-> Vec(nb_path, 0), vol_prev |-> Vec(nb_path, 0),
                  sigma0 |-> sin,
                  x_i |-> xin, sigma_i |-> sin, qvar_i |-> qin]]

----------------------------------------------------------------------------
(* get_randoms_roughvol *)

RECURSIVE RoughGridLoop(_, _, _, _, _)
\* the loop over ttms from position k on; acc holds nb_steps and dts
RoughGridLoop(ttms, k, t0, nb_steps_per_year, acc) ==
    IF k > Len(ttms) THEN acc
    ELSE LET tg == SetTimeGrid(ttms[k] - t0, nb_steps_per_year)
         IN  RoughGridLoop(ttms, k + 1, tg.grid_end, nb_steps_per_year,
                 [nb_steps |-> Append(acc.nb_steps, tg.nb_steps),
                  dts |-> Append(acc.dts, tg.dt)])

GetRandomsRoughvol(ttms, nb_path, nb_steps_per_year, seed) ==
    LET g == RoughGridLoop(ttms, 1, 0, nb_steps_per_year,
                           [nb_steps |-> <<>>, dts |-> <<>>])
        n == SumSeq(g.nb_steps)
        r == SetSeed(seed)
    IN  [W0 |-> RandomNormal(r, n, nb_path),
         W1 |-> <<RandomNormal(RngAfter(r, n * nb_path), n, nb_path),
                  RandomNormal(RngAfter(r, 2 * n * nb_path), n, nb_path)>>,
         dts |-> g.dts, nb_steps |-> g.nb_steps,
         rng |-> RngAfter(r, 3 * n * nb_path)]

----------------------------------------------------------------------------
(* State machine of the Monte-Carlo simulators and chain pricers *)

McEntries == {"logsv_mc_chain_pricer", "logsv_mc_chain_pricer_fixed_randoms"}

ChainArgs ==
    [ttms : Chains, par : ParamSet, eta : EtaSet, is_spot_measure : BOOLEAN,
     nb_path : PathCounts, nb_steps_per_year : StepsPerYearSet, seed : SeedSet]

VolPathsArgs ==
    [ttm : TtmSet, par : ParamSet, is_spot_measure : BOOLEAN, nb_path : PathCounts,
     nb_steps_per_year : StepsPerYearSet, supplied : BOOLEAN]

None == "None"

\* locals of the Monte-Carlo pricers before they are bound
InitChainLocals ==
    /\ W0s = <<>> /\ W1s = <<>> /\ dts = <<>> /\ nb_steps = <<>>
    /\ x0 = <<>> /\ sigma0 = <<>> /\ qvar0 = <<>>
    /\ ttm0 = 0 /\ idx = 0
    /\ frame = NoFrame
    /\ sim_calls = <<>>
    /\ option_prices_ttm = <<>>

\* locals of the transform pricer before they are bound
InitAfeLocals ==
    /\ vol_scaler = None /\ grids = None /\ grid_builds = 0
    /\ a_t0 = <<>> /\ log_mgf_grid = <<>>
    /\ model_prices_ttms = <<>>

\* locals of the calibrator before they are bound
InitCalibLocals ==
    /\ weights = <<>> /\ p0 = <<>> /\ constraints = <<>> /\ evals = <<>>
    /\ res = None /\ fit_params = None

InitMc ==
    /\ entry \in McEntries \cup {"simulate_vol_paths"}
    /\ arg \in IF entry = "simulate_vol_paths" THEN VolPathsArgs ELSE ChainArgs
    /\ entry = "logsv_mc_chain_pricer" => arg.seed = 10
    /\ rng \in 0..(RngMod - 1)
    /\ pc = IF entry = "logsv_mc_chain_pricer_fixed_randoms" THEN "randoms" ELSE "start"
    /\ exc = "none"
    /\ InitChainLocals
    /\ InitAfeLocals
    /\ InitCalibLocals

\* the caller of the fixed-randoms pricer freezes the randoms of the chain
GetRandoms ==
    /\ entry = "logsv_mc_chain_pricer_fixed_randoms"
    /\ pc = "randoms"
    /\ LET g == GetRandomsForChainValuation(arg.ttms, arg.nb_path,
                                            arg.nb_steps_per_year, arg.seed)
       IN  /\ W0s' = g.W0s /\ W1s' = g.W1s /\ dts' = g.dts /\ nb_steps' = g.nb_steps
           /\ rng' = g.rng
    /\ pc' = "start"
    /\ UNCHANGED <<afe_vars, calib_vars, entry, exc, arg, x0, sigma0, qvar0, ttm0, idx, frame, sim_calls,
                   option_prices_ttm>>

\* both chain pricers: the starting values
McChainStart ==
    /\ entry \in McEntries
    /\ pc = "start"
    /\ LET nb_path == IF entry = "logsv_mc_chain_pricer" THEN arg.nb_path
                      ELSE Len(W0s[1][1])
       IN  /\ x0' = Vec(nb_path, 0)
           /\ qvar0' = Vec(nb_path, 0)
           /\ sigma0' = Vec(nb_path, arg.par.sigma0)
    /\ ttm0' = 0
    /\ idx' = 0
    /\ pc' = "loop"
    /\ UNCHANGED <<afe_vars, calib_vars, entry, exc, arg, rng, W0s, W1s, dts, nb_steps, frame, sim_calls,
                   option_prices_ttm>>

\* the time increment the chain pricers pass for maturity ttm
ChainIncrement(ttm, t0) == ttm - t0

\* the state the chain pricers pass for the next maturity
ChainState(x, sigma, qvar, v0) == [x0 |-> x, sigma0 |-> sigma, qvar0 |-> qvar]

\* loop body up to the simulator's time loop
McChainCall ==
    /\ entry \in McEntries
    /\ pc = "loop"
    /\ idx < Len(arg.ttms)
    /\ LET k     == idx + 1
           fixed == entry = "logsv_mc_chain_pricer_fixed_randoms"
           ttm   == ChainIncrement(arg.ttms[k], ttm0)
           st    == ChainState(x0, sigma0, qvar0, arg.par.sigma0)
           e     == TerminalEnter(ttm, st.x0, st.sigma0, st.qvar0, arg.par, arg.eta,
                        arg.is_spot_measure, Len(x0),
                        IF fixed THEN NbStepsPerYearDefault ELSE arg.nb_steps_per_year,
                        IF fixed THEN W0s[k] ELSE <<>>,
                        IF fixed THEN W1s[k] ELSE <<>>,
                        IF fixed THEN dts[k] ELSE 0,
                        rng)
       IN  /\ frame' = e.frame
           /\ rng' = e.rng
           /\ sim_calls' = Append(sim_calls,
                  [ttm |-> ttm, x0 |-> st.x0, sigma0 |-> st.sigma0, qvar0 |-> st.qvar0,
                   start |-> [x0 |-> e.frame.x0, sigma0 |-> e.frame.sigma0,
                              qvar0 |-> e.frame.qvar0],
                   dt |-> e.frame.dt, nb_steps |-> Len(e.frame.W0_),
                   eta |-> arg.eta, ret |-> <<>>])
    /\ pc' = "sim"
    /\ UNCHANGED <<afe_vars, calib_vars, entry, exc, arg, W0s, W1s, dts, nb_steps, x0, sigma0, qvar0, ttm0,
                   idx, option_prices_ttm>>

\* one pass of simulate_logsv_x_vol_terminal's time loop
TerminalLoop ==
    /\ pc = "sim"
    /\ frame.fn = "simulate_logsv_x_vol_terminal"
    /\ frame.t_ < Len(frame.W0_)
    /\ frame' = TerminalStep(frame)
    /\ UNCHANGED <<afe_vars, calib_vars, entry, pc, exc, arg, rng, W0s, W1s, dts, nb_steps, x0, sigma0, qvar0,
                   ttm0, idx, sim_calls, option_prices_ttm>>

\* the simulator returns; rest of the chain pricers' loop body
McChainReturn ==
    /\ entry \in McEntries
    /\ pc = "sim"
    /\ frame.fn = "simulate_logsv_x_vol_terminal"
    /\ frame.t_ = Len(frame.W0_)
    /\ x0' = frame.x0 /\ sigma0' = frame.sigma0 /\ qvar0' = frame.qvar0
    /\ ttm0' = arg.ttms[idx + 1]
    /\ option_prices_ttm' = Append(option_prices_ttm,
           ComputeMcVarsPayoff(frame.x0, frame.sigma0, frame.qvar0, arg.ttms[idx + 1]))
    /\ idx' = idx + 1
    /\ frame' = NoFrame
    /\ sim_calls' = [sim_calls EXCEPT ![idx + 1].ret =
                         [x0 |-> frame.x0, sigma0 |-> frame.sigma0, qvar0 |-> frame.qvar0]]
    /\ pc' = IF idx + 1 = Len(arg.ttms) THEN "done" ELSE "loop"
    /\ UNCHANGED <<afe_vars, calib_vars, entry, exc, arg, rng, W0s, W1s, dts, nb_steps>>

\* simulate_vol_paths up to its time loop; a supplied array is one the caller
\* drew on the grid of the call
VolPathsCall ==
    /\ entry = "simulate_vol_paths"
    /\ pc = "start"
    /\ LET tg == SetTimeGrid(arg.ttm, arg.nb_steps_per_year)
           b  == IF arg.supplied
                 THEN Scaled(RandomNormal(rng, tg.nb_steps, arg.nb_path), SqrtDt(tg.dt))
                 ELSE <<>>
           e  == VolPathsEnter(arg.ttm, arg.par, arg.is_spot_measure, arg.nb_path,
                               arg.nb_steps_per_year, b, rng)
       IN  /\ frame' = e.frame
           /\ rng' = e.rng
           /\ pc' = IF e.shape_ok THEN "sim" ELSE "raised"
           /\ exc' = IF e.shape_ok THEN "none" ELSE "AssertionError"
    /\ UNCHANGED <<afe_vars, calib_vars, entry, arg, W0s, W1s, dts, nb_steps, x0, sigma0, qvar0, ttm0, idx,
                   sim_calls, option_prices_ttm>>

\* one pass of simulate_vol_paths's time loop
VolPathsLoop ==
    /\ pc = "sim"
    /\ frame.fn = "simulate_vol_paths"
    /\ frame.t_ < Len(frame.brownians)
    /\ frame' = VolPathsStep(frame)
    /\ UNCHANGED <<afe_vars, calib_vars, entry, pc, exc, arg, rng, W0s, W1s, dts, nb_steps, x0, sigma0, qvar0,
                   ttm0, idx, sim_calls, option_prices_ttm>>

\* simulate_vol_paths returns sigma_t and grid_t
VolPathsReturn ==
    /\ pc = "sim"
    /\ frame.fn = "simulate_vol_paths"
    /\ frame.t_ = Len(frame.brownians)
    /\ pc' = "done"
    /\ UNCHANGED <<afe_vars, calib_vars, entry, exc, arg, rng, W0s, W1s, dts, nb_steps, x0, sigma0, qvar0,
                   ttm0, idx, frame, sim_calls, option_prices_ttm>>

NextMc ==
    \/ GetRandoms
    \/ McChainStart
    \/ McChainCall
    \/ TerminalLoop
    \/ McChainReturn
    \/ VolPathsCall
    \/ VolPathsLoop
    \/ VolPathsReturn

SpecMc == InitMc /\ [][NextMc]_vars

----------------------------------------------------------------------------
(* Properties of the Monte-Carlo simulators and chain pricers *)

RECURSIVE TerminalRun(_)
\* simulate_logsv_x_vol_terminal run to its return
TerminalRun(f) == IF f.t_ = Len(f.W0_) THEN f ELSE TerminalRun(TerminalStep(f))

\* one call of simulate_logsv_x_vol_terminal on supplied randoms, from state st
SimulateTerminal(ttm, st, W0, W1, dt) ==
    LET f == TerminalRun(TerminalEnter(ttm, st.x0, st.sigma0, st.qvar0, arg.par,
                 arg.eta, arg.is_spot_measure, Len(st.x0), NbStepsPerYearDefault,
                 W0, W1, dt, 0).frame)
    IN  [x0 |-> f.x0, sigma0 |-> f.sigma0, qvar0 |-> f.qvar0]

PrevTtm(ttms, k) == IF k = 1 THEN 0 ELSE ttms[k - 1]

RECURSIVE StagedState(_)
\* the state reached by simulating [0, t1] from (0, v0, 0), feeding the result into
\* a simulation of [t1, t2], and so on up to maturity k
StagedState(k) ==
    IF k = 0
    THEN [x0 |-> Vec(Len(W0s[1][1]), 0),
          sigma0 |-> Vec(Len(W0s[1][1]), arg.par.sigma0),
          qvar0 |-> Vec(Len(W0s[1][1]), 0)]
    ELSE SimulateTerminal(arg.ttms[k] - PrevTtm(arg.ttms, k), StagedState(k - 1),
                          W0s[k], W1s[k], dts[k])

\* the chain pricers hand the simulator the gap to the previous maturity and the
\* state the previous call returned
ChainPassesCarriedState ==
    entry \in McEntries =>
        \A k \in 1..Len(sim_calls) :
            /\ sim_calls[k].ttm = arg.ttms[k] - PrevTtm(arg.ttms, k)
            /\ k > 1 =>
                  /\ sim_calls[k].x0 = sim_calls[k - 1].ret.x0
                  /\ sim_calls[k].sigma0 = sim_calls[k - 1].ret.sigma0
                  /\ sim_calls[k].qvar0 = sim_calls[k - 1].ret.qvar0

\* C1: the standard chain pricers take the maturities in order and pass the gap
\* between consecutive maturities as time increment; the simulation of the first
\* slice starts from (0, v0, 0) and the simulation of every later slice starts from
\* the terminal (log-price, vol, quadratic variation) of the slice before; with
\* fixed randoms the state after maturity k is the one staged simulations give.
C1_ChainContinuation ==
    entry \in McEntries =>
        /\ \A k \in 1..Len(sim_calls) :
              /\ sim_calls[k].ttm = arg.ttms[k] - PrevTtm(arg.ttms, k)
              /\ k = 1 =>
                    /\ sim_calls[k].start.x0 = Vec(Len(x0), 0)
                    /\ sim_calls[k].start.sigma0 = Vec(Len(x0), arg.par.sigma0)
                    /\ sim_calls[k].start.qvar0 = Vec(Len(x0), 0)
              /\ k > 1 => sim_calls[k].start = sim_calls[k - 1].ret
        /\ (pc \in {"loop", "done"} /\ entry = "logsv_mc_chain_pricer_fixed_randoms") =>
              /\ ttm0 = PrevTtm(arg.ttms, idx + 1)
              /\ [x0 |-> x0, sigma0 |-> sigma0, qvar0 |-> qvar0] = StagedState(idx)

\* the same with two paths or more
ChainContinuationSeveralPaths == (entry \in McEntries /\ arg.nb_path >= 2) => C1_ChainContinuation

\* the maturity gap of slice i in step-size units
GapYears(ttms, i) == ((ttms[i] - PrevTtm(ttms, i)) * Scale * Scale) \div TicksPerYear

\* C3: the random block of slice i has the step count and step size of the uniform
\* grid of the gap ttms[i] - ttms[i-1]: nb_steps[i] * dts[i] is that gap (up to the
\* rounding of the step size), for chains of any length.
C3_RandomsSpanTheGaps ==
    (entry = "logsv_mc_chain_pricer_fixed_randoms" /\ pc # "randoms") =>
        \A i \in 1..Len(arg.ttms) :
            /\ Len(W0s[i]) = nb_steps[i]
            /\ Len(W1s[i]) = nb_steps[i]
            /\ Abs(nb_steps[i] * dts[i] - GapYears(arg.ttms, i)) <= nb_steps[i]

\* C10: in the standard scheme the vol of every path is strictly positive at every
\* step, being the exponential of the log-vol state.
C10_VolStrictlyPositive ==
    /\ \A q \in 1..Len(sigma0) : sigma0[q] > 0
    /\ frame.fn \in {"simulate_vol_paths", "simulate_logsv_x_vol_terminal"} =>
          \A q \in 1..frame.nb_path :
              /\ frame.sigma0[q] > 0
              /\ frame.t_ >= 1 => frame.sigma0[q] = Exp(frame.vol_var[q])
    /\ frame.fn = "simulate_vol_paths" =>
          /\ Len(frame.sigma_t) = frame.t_ + 1
          /\ \A t \in 1..Len(frame.sigma_t) :
                \A q \in 1..frame.nb_path : frame.sigma_t[t][q] > 0

\* simulate_vol_paths has stepped a path twice and its log-vol went down, below zero
C10_WitnessVolPaths ==
    /\ frame.fn = "simulate_vol_paths"
    /\ frame.t_ >= 2
    /\ \E q \in 1..frame.nb_path :
          frame.vol_var[q] < Log(arg.par.sigma0) /\ frame.vol_var[q] < 0

----------------------------------------------------------------------------
(* State machine of the rough-volatility chain pricer *)

RoughArgs ==
    [ttms : Chains, par : ParamSet, eta : EtaSet, is_spot_measure : BOOLEAN,
     nb_path : PathCounts, nb_steps_per_year : StepsPerYearSet, seed : SeedSet,
     H : HSet]

InitRough ==
    /\ entry = "logsv_roughmc_chain_pricer_fixed_randoms"
    /\ arg \in RoughArgs
    /\ rng = 0
    /\ pc = "randoms"
    /\ exc = "none"
    /\ InitChainLocals
    /\ InitAfeLocals
    /\ InitCalibLocals

\* the caller freezes the randoms of the chain: W0s holds W0, W1s holds W1
GetRandomsRough ==
    /\ entry = "logsv_roughmc_chain_pricer_fixed_randoms"
    /\ pc = "randoms"
    /\ LET g == GetRandomsRoughvol(arg.ttms, arg.nb_path, arg.nb_steps_per_year, arg.seed)
       IN  /\ W0s' = g.W0 /\ W1s' = g.W1 /\ dts' = g.dts /\ nb_steps' = g.nb_steps
           /\ rng' = g.rng
    /\ pc' = "start"
    /\ UNCHANGED <<afe_vars, calib_vars, entry, exc, arg, x0, sigma0, qvar0, ttm0, idx, frame, sim_calls,
                   option_prices_ttm>>

\* the starting values
RoughChainStart ==
    /\ entry = "logsv_roughmc_chain_pricer_fixed_randoms"
    /\ pc = "start"
    /\ LET nb_path == Len(W0s[1])
       IN  /\ x0' = Vec(nb_path, 0)
           /\ qvar0' = Vec(nb_path, 0)
           /\ sigma0' = Vec(nb_path, arg.par.sigma0)
    /\ idx' = 0
    /\ pc' = "loop"
    /\ UNCHANGED <<afe_vars, calib_vars, entry, exc, arg, rng, W0s, W1s, dts, nb_steps, ttm0, frame, sim_calls,
                   option_prices_ttm>>

\* the time increment the rough chain pricer passes for maturity k
RoughChainIncrementGap(ttms, k) == ttms[k] - (IF k = 1 THEN 0 ELSE ttms[k - 1])
RoughChainIncrement(ttms, k) == ttms[k]

\* the state the rough chain pricer passes for maturity k: x, sigma, qvar are its
\* starting values, calls the simulator calls already made
RoughChainState(x, sigma, qvar, calls) == [x0 |-> x, sigma0 |-> sigma, qvar0 |-> qvar]

\* the first n rows of a block of randoms
Rows(W, n) == SubSeq(W, 1, Min(n, Len(W)))

\* loop body up to the simulator's time loop
RoughChainCall ==
    /\ entry = "logsv_roughmc_chain_pricer_fixed_randoms"
    /\ pc = "loop"
    /\ idx < Len(arg.ttms)
    /\ LET k         == idx + 1
           nb_step_j == SumSeq(SubSeq(nb_steps, 1, k))
           ttm       == RoughChainIncrement(arg.ttms, k)
           st        == RoughChainState(x0, sigma0, qvar0, sim_calls)
           e         == RoughEnter(ttm, st.x0, st.sigma0, st.qvar0, arg.par, arg.H,
                            arg.eta, arg.is_spot_measure, Len(x0), NbStepsPerYearDefault,
                            Rows(W0s, nb_step_j),
                            <<Rows(W1s[1], nb_step_j), Rows(W1s[2], nb_step_j)>>,
                            rng)
       IN  /\ frame' = e.frame
           /\ rng' = e.rng
           /\ exc' = e.exc
           /\ pc' = IF e.exc = "none" THEN "sim" ELSE "raised"
           /\ sim_calls' = Append(sim_calls,
                  [ttm |-> ttm, x0 |-> st.x0, sigma0 |-> st.sigma0, qvar0 |-> st.qvar0,
                   nb_rows |-> Min(nb_step_j, Len(W0s)), ret |-> <<>>])
    /\ UNCHANGED <<afe_vars, calib_vars, entry, arg, W0s, W1s, dts, nb_steps, x0, sigma0, qvar0, ttm0, idx,
                   option_prices_ttm>>

\* one pass of simulate_rough_logsv_x_vol_terminal's time loop
RoughLoop ==
    /\ pc = "sim"
    /\ frame.fn = "simulate_rough_logsv_x_vol_terminal"
    /\ frame.i_ < frame.nb_steps
    /\ frame' = RoughStep(frame)
    /\ UNCHANGED <<afe_vars, calib_vars, entry, pc, exc, arg, rng, W0s, W1s, dts, nb_steps, x0, sigma0, qvar0,
                   ttm0, idx, sim_calls, option_prices_ttm>>

\* the simulator returns x_t, sigma_t, qvar_t; rest of the loop body
RoughChainReturn ==
    /\ entry = "logsv_roughmc_chain_pricer_fixed_randoms"
    /\ pc = "sim"
    /\ frame.fn = "simulate_rough_logsv_x_vol_terminal"
    /\ frame.i_ = frame.nb_steps
    /\ option_prices_ttm' = Append(option_prices_ttm,
           ComputeMcVarsPayoff(frame.x_i, frame.sigma_i, frame.qvar_i, arg.ttms[idx + 1]))
    /\ sim_calls' = [sim_calls EXCEPT ![idx + 1].ret =
                         [x0 |-> frame.x_i, sigma0 |-> frame.sigma_i, qvar0 |-> frame.qvar_i]]
    /\ idx' = idx + 1
    /\ frame' = NoFrame
    /\ pc' = IF idx + 1 = Len(arg.ttms) THEN "done" ELSE "loop"
    /\ UNCHANGED <<afe_vars, calib_vars, entry, exc, arg, rng, W0s, W1s, dts, nb_steps, x0, sigma0, qvar0, ttm0>>

NextRough ==
    \/ GetRandomsRough
    \/ RoughChainStart
    \/ RoughChainCall
    \/ RoughLoop
    \/ RoughChainReturn

SpecRough == InitRough /\ [][NextRough]_vars

\* C2 as claimed: the rough chain pricer carries the terminal state of slice i-1
\* forward as the initial state of slice i and passes the gap ttms[i] - ttms[i-1].
C2_RoughCarriesStateAndGap ==
    entry = "logsv_roughmc_chain_pricer_fixed_randoms" =>
        \A k \in 1..Len(sim_calls) :
            /\ sim_calls[k].ttm = arg.ttms[k] - PrevTtm(arg.ttms, k)
            /\ (k > 1 /\ sim_calls[k - 1].ret # <<>>) =>
                  /\ sim_calls[k].x0 = sim_calls[k - 1].ret.x0
                  /\ sim_calls[k].sigma0 = sim_calls[k - 1].ret.sigma0
                  /\ sim_calls[k].qvar0 = sim_calls[k - 1].ret.qvar0

\* C2 amended: the rough chain pricer takes the maturities in increasing order and
\* simulates every one of them afresh: from the starting values (0, v0, 0), over the
\* absolute maturity ttms[i], on the first nb_steps[1] + ... + nb_steps[i] rows of the
\* randoms; the terminal state of a slice is priced and not carried forward.
C2_RoughRestartsEverySlice ==
    entry = "logsv_roughmc_chain_pricer_fixed_randoms" =>
        /\ \A k \in 1..Len(sim_calls) :
              /\ sim_calls[k].ttm = arg.ttms[k]
              /\ sim_calls[k].x0 = Vec(Len(W0s[1]), 0)
              /\ sim_calls[k].sigma0 = Vec(Len(W0s[1]), arg.par.sigma0)
              /\ sim_calls[k].qvar0 = Vec(Len(W0s[1]), 0)
              /\ sim_calls[k].nb_rows = SumSeq(SubSeq(nb_steps, 1, k))
        /\ pc \in {"loop", "sim", "done", "raised"} =>
              /\ x0 = Vec(Len(W0s[1]), 0)
              /\ sigma0 = Vec(Len(W0s[1]), arg.par.sigma0)
              /\ qvar0 = Vec(Len(W0s[1]), 0)
        /\ Len(option_prices_ttm) = idx
        /\ Len(sim_calls) \in {idx, idx + 1}

\* a chain of two maturities has been priced and the first slice ended elsewhere
\* than it started
C2_Witness ==
    /\ entry = "logsv_roughmc_chain_pricer_fixed_randoms"
    /\ pc = "done"
    /\ idx = 2
    /\ arg.nb_path = 2
    /\ sim_calls[1].ret.x0 # sim_calls[1].x0
    /\ sim_calls[1].ret.sigma0 # sim_calls[1].sigma0
    /\ sim_calls[2].ttm > sim_calls[1].ttm

----------------------------------------------------------------------------
(* logsv_chain_pricer: the affine-expansion transform pricer *)

\* maturities of the transform pricer, in ticks: 3, 15 and 45 days
AfeTtmSet == {6, 30, 90}
AfeChains ==
    UNION {{s \in [1..n -> AfeTtmSet] : IsIncreasing(s)} : n \in 1..MaxChain}
VariableTypes == {"LOG_RETURN", "Q_VAR", "SIGMA"}
ExpansionOrders == {"FIRST", "SECOND"}

\* a time in ticks as a value in years, a value times a time in ticks
Years(ttm) == (ttm * Scale) \div TicksPerYear
MulTicks(a, ttm) == (a * ttm) \div TicksPerYear

RECURSIVE SeqMin(_)
SeqMin(s) == IF Len(s) = 1 THEN s[1] ELSE Min(s[1], SeqMin(Tail(s)))

RECURSIVE Power(_, _)
Power(y, n) == IF n = 0 THEN One ELSE Mul(y, Power(y, n - 1))

\* set_vol_scaler(sigma0, ttm)
SetVolScaler(sigma0_, ttm) == Mul(sigma0_, Sqrt(Min(Years(ttm), Half \div 12)))

\* mgfp.get_transform_var_grid: the grid of the transform variable of the variable
\* type, scaled by vol_scaler; the other two grids are zero
GetTransformVarGrid(variable_type, is_spot_measure, vs) ==
    LET re   == IF is_spot_measure THEN -Half ELSE Half
        pts  == [p \in 1..NbGrid |-> [re |-> re, im |-> Div(p * One, vs)]]
        zero == [p \in 1..NbGrid |-> [re |-> 0, im |-> 0]]
    IN  [phi_grid   |-> IF variable_type = "LOG_RETURN" THEN pts ELSE zero,
         psi_grid   |-> IF variable_type = "Q_VAR" THEN pts ELSE zero,
         theta_grid |-> IF variable_type = "SIGMA" THEN pts ELSE zero]

\* afe.get_expansion_n
GetExpansionN(expansion_order) == IF expansion_order = "FIRST" THEN 3 ELSE 5

\* params.get_vol_backbone_eta(tau): no backbone is set
GetVolBackboneEta(par, tau) == One

\* afe.compute_logsv_a_mgf_grid: the coefficient state a_t0 of every grid point
\* integrated over ttm, and the log-MGF the integrated state gives at (sigma0, theta)
ComputeLogsvAMgfGrid(ttm, g, a, par, eta, expansion_order, is_spot_measure) ==
    LET n    == GetExpansionN(expansion_order)
        u(p) == g.phi_grid[p].im + g.psi_grid[p].im + g.theta_grid[p].im
                  + g.phi_grid[p].re
        adj  == IF is_spot_measure THEN 0 ELSE Mul(par.beta, eta)
        a1   == [p \in 1..Len(a) |-> [j \in 1..n |->
                    a[p][j] + MulTicks(u(p) - Mul(par.kappa1 + j * par.kappa2 - adj,
                                                  a[p][j]), ttm)]]
        y    == par.sigma0 - par.theta
    IN  [a_t0 |-> a1,
         log_mgf_grid |->
            [p \in 1..Len(a) |-> SumSeq([j \in 1..n |-> Mul(a1[p][j], Power(y, j - 1))])]]

\* forwards and discount factors of the chain
Forwards(k) == One + 10 * k
Discfactors(k) == One - 5 * k

\* mgfp.vanilla_slice_pricer_with_mgf_grid and mgfp.slice_qvar_pricer_with_a_grid:
\* the prices of a slice read off its log-MGF grid
VanillaSlicePricerWithMgfGrid(lmg, phi_grid, forward, discfactor, is_spot_measure) ==
    <<Mul(discfactor, Mul(forward, SumSeq(lmg) \div Len(lmg)))>>
SliceQvarPricerWithAGrid(lmg, psi_grid, ttm, forward, discfactor, is_spot_measure) ==
    <<Mul(discfactor, MulTicks(SumSeq(lmg) \div Len(lmg), ttm))>>

AfeArgs ==
    [ttms : AfeChains, par : ParamSet, is_spot_measure : BOOLEAN,
     expansion_order : ExpansionOrders, variable_type : VariableTypes,
     vol_scaler : {<<>>, <<Half \div 2>>}]

InitAfe ==
    /\ entry = "logsv_chain_pricer"
    /\ arg \in AfeArgs
    /\ rng = 0
    /\ pc = "start"
    /\ exc = "none"
    /\ InitChainLocals
    /\ InitAfeLocals
    /\ InitCalibLocals

\* the starting values: vol_scaler (arg.vol_scaler = <<>> stands for None), the
\* transform grid and a zero coefficient state
AfeStart ==
    /\ entry = "logsv_chain_pricer"
    /\ pc = "start"
    /\ LET vs == IF arg.vol_scaler = <<>>
                 THEN SetVolScaler(arg.par.sigma0, SeqMin(arg.ttms))
                 ELSE arg.vol_scaler[1]
       IN  /\ vol_scaler' = vs
           /\ grids' = GetTransformVarGrid(arg.variable_type, arg.is_spot_measure, vs)
    /\ grid_builds' = grid_builds + 1
    /\ a_t0' = [p \in 1..NbGrid |-> Vec(GetExpansionN(arg.expansion_order), 0)]
    /\ ttm0' = 0
    /\ idx' = 0
    /\ pc' = "loop"
    /\ UNCHANGED <<entry, exc, arg, rng, W0s, W1s, dts, nb_steps, x0, sigma0, qvar0,
                   frame, sim_calls, option_prices_ttm, log_mgf_grid, model_prices_ttms,
                   calib_vars>>

\* the time increment and the coefficient state handed to the engine
AfeIncrementAbsolute(ttm, t0) == ttm
AfeIncrement(ttm, t0) == ttm - t0

\* loop body: the engine call
AfeEngineCall ==
    /\ entry = "logsv_chain_pricer"
    /\ pc = "loop"
    /\ idx < Len(arg.ttms)
    /\ LET ttm == arg.ttms[idx + 1]
           eta == GetVolBackboneEta(arg.par, ttm)
           r   == ComputeLogsvAMgfGrid(AfeIncrement(ttm, ttm0), grids, a_t0, arg.par, eta,
                                       arg.expansion_order, arg.is_spot_measure)
       IN  /\ a_t0' = r.a_t0
           /\ log_mgf_grid' = r.log_mgf_grid
           /\ sim_calls' = Append(sim_calls,
                  [ttm |-> AfeIncrement(ttm, ttm0), grids |-> grids, a_t0 |-> a_t0,
                   eta |-> eta, ret |-> r])
    /\ pc' = "price"
    /\ UNCHANGED <<entry, exc, arg, rng, W0s, W1s, dts, nb_steps, x0, sigma0, qvar0,
                   ttm0, idx, frame, option_prices_ttm, vol_scaler, grids, grid_builds,
                   model_prices_ttms, calib_vars>>

\* loop body: the prices of the slice from its log-MGF grid
AfePriceSlice ==
    /\ entry = "logsv_chain_pricer"
    /\ pc = "price"
    /\ LET k   == idx + 1
           ttm == arg.ttms[k]
       IN  IF arg.variable_type \in {"LOG_RETURN", "Q_VAR"}
           THEN /\ model_prices_ttms' = Append(model_prices_ttms,
                       IF arg.variable_type = "LOG_RETURN"
                       THEN VanillaSlicePricerWithMgfGrid(log_mgf_grid, grids.phi_grid,
                                Forwards(k), Discfactors(k), arg.is_spot_measure)
                       ELSE SliceQvarPricerWithAGrid(log_mgf_grid, grids.psi_grid, ttm,
                                Forwards(k), Discfactors(k), arg.is_spot_measure))
                /\ ttm0' = ttm
                /\ idx' = k
                /\ pc' = IF k = Len(arg.ttms) THEN "done" ELSE "loop"
                /\ exc' = exc
           ELSE /\ pc' = "raised"
                /\ exc' = "NotImplementedError"
                /\ UNCHANGED <<model_prices_ttms, ttm0, idx>>
    /\ UNCHANGED <<entry, arg, rng, W0s, W1s, dts, nb_steps, x0, sigma0, qvar0, frame,
                   sim_calls, option_prices_ttm, vol_scaler, grids, grid_builds, a_t0,
                   log_mgf_grid, calib_vars>>

NextAfe ==
    \/ AfeStart
    \/ AfeEngineCall
    \/ AfePriceSlice

SpecAfe == InitAfe /\ [][NextAfe]_vars

\* C4: logsv_chain_pricer builds the transform grid once per chain and starts the
\* coefficient state at zero; the engine call of maturity i runs over the increment
\* ttms[i] - ttms[i-1] on that grid from the coefficient state returned for maturity
\* i-1; the coefficient state and the log-MGF grid held after the call are the ones
\* that call returned, so nothing but the coefficient state passes between slices.
C4_CoefficientStateCarried ==
    (entry = "logsv_chain_pricer" /\ pc # "start") =>
        /\ grid_builds = 1
        /\ grids = GetTransformVarGrid(arg.variable_type, arg.is_spot_measure, vol_scaler)
        /\ \A k \in 1..Len(sim_calls) :
              /\ sim_calls[k].ttm = arg.ttms[k] - PrevTtm(arg.ttms, k)
              /\ sim_calls[k].grids = grids
              /\ sim_calls[k].a_t0 =
                    IF k = 1
                    THEN [p \in 1..NbGrid |-> Vec(GetExpansionN(arg.expansion_order), 0)]
                    ELSE sim_calls[k - 1].ret.a_t0
              /\ sim_calls[k].ret =
                    ComputeLogsvAMgfGrid(arg.ttms[k] - PrevTtm(arg.ttms, k), grids,
                        sim_calls[k].a_t0, arg.par, One, arg.expansion_order,
                        arg.is_spot_measure)
        /\ Len(sim_calls) >= 1 =>
              /\ a_t0 = sim_calls[Len(sim_calls)].ret.a_t0
              /\ log_mgf_grid = sim_calls[Len(sim_calls)].ret.log_mgf_grid
        /\ Len(sim_calls) \in {idx, idx + 1}
        /\ Len(model_prices_ttms) = idx

\* a chain of three maturities has been priced; the second slice started from a
\* non-zero coefficient state and every slice has its own log-MGF grid
C4_Witness ==
    /\ entry = "logsv_chain_pricer"
    /\ pc = "done"
    /\ idx = 3
    /\ sim_calls[2].a_t0 # sim_calls[1].a_t0
    /\ sim_calls[3].a_t0 = sim_calls[2].ret.a_t0
    /\ sim_calls[2].ret.log_mgf_grid # sim_calls[1].ret.log_mgf_grid
    /\ sim_calls[3].ret.log_mgf_grid # sim_calls[2].ret.log_mgf_grid

----------------------------------------------------------------------------
(* LogSVPricer.calibrate_model_params_to_chain *)

LogsvModelCalibrationTypes == {"PARAMS4", "PARAMS5", "PARAMS6", "PARAMS_WITH_VARSWAP_FIT"}
ConstraintsTypes ==
    {"UNCONSTRAINT", "MMA_MARTINGALE", "INVERSE_MARTINGALE", "MMA_MARTINGALE_MOMENT4",
     "INVERSE_MARTINGALE_MOMENT4"}
CalibrationEngines == {"ANALYTIC", "MC"}

\* option chains: maturities in ticks, vegas and market vols of every slice
OptionChains ==
    {[ttms |-> <<6, 30>>,
      vegas_ttms |-> <<<<100, 300>>, <<100, 100, 100>>>>,
      market_vols |-> <<<<800, 850>>, <<900, 820, 780>>>>],
     [ttms |-> <<30>>,
      vegas_ttms |-> <<<<500, 250, 250>>>>,
      market_vols |-> <<<<700, 650, 720>>>>]}

\* params_min and params_max, and a trial point within them
ParamsMin ==
    [sigma0 |-> 100, theta |-> 100, kappa1 |-> 250, kappa2 |-> 250, beta |-> -3000,
     volvol |-> 200]
ParamsMax ==
    [sigma0 |-> 1500, theta |-> 1500, kappa1 |-> 10000, kappa2 |-> 10000, beta |-> 3000,
     volvol |-> 3000]
TrialEdge ==
    [sigma0 |-> 300, theta |-> 1500, kappa1 |-> 250, kappa2 |-> 250, beta |-> 2000,
     volvol |-> 200]
\* a trial point within the bounds at which the lowest strike has no implied vol
TrialNan ==
    [sigma0 |-> 100, theta |-> 100, kappa1 |-> 250, kappa2 |-> 250, beta |-> 3000,
     volvol |-> 200]
TrialParams == ParamSet \cup {TrialEdge, TrialNan}

\* LogSvParams(...): kappa2 = None is mapped to kappa1 / theta
LogSvParams(sigma0_, theta, kappa1, kappa2, beta, volvol) ==
    [sigma0 |-> sigma0_, theta |-> theta, kappa1 |-> kappa1,
     kappa2 |-> IF kappa2 = <<>> THEN Div(kappa1, theta) ELSE kappa2[1],
     beta |-> beta, volvol |-> volvol]

\* LogSvParams.vartheta2
Vartheta2(params) == Mul(params.beta, params.beta) + Mul(params.volvol, params.volvol)

\* parse_model_params with kappa2 = None, hence mapped, wherever it is not fitted
ParseModelParamsMapped(pars, model_calibration_type, params0) ==
    IF model_calibration_type = "PARAMS4"
    THEN LogSvParams(pars[1], pars[2], params0.kappa1, <<>>, pars[3], pars[4])
    ELSE IF model_calibration_type = "PARAMS5"
    THEN LogSvParams(pars[1], pars[2], pars[3], <<>>, pars[4], pars[5])
    ELSE IF model_calibration_type = "PARAMS_WITH_VARSWAP_FIT"
    THEN LogSvParams(params0.sigma0, params0.theta, params0.kappa1, <<>>, pars[1], pars[2])
    ELSE [exc |-> "NotImplementedError"]

\* parse_model_params(pars) under the calibration type and params0 of the call
ParseModelParams(pars, model_calibration_type, params0) ==
    IF model_calibration_type = "PARAMS4"
    THEN LogSvParams(pars[1], pars[2], params0.kappa1, <<params0.kappa2>>, pars[3], pars[4])
    ELSE IF model_calibration_type = "PARAMS5"
    THEN LogSvParams(pars[1], pars[2], pars[3], <<>>, pars[4], pars[5])
    ELSE IF model_calibration_type = "PARAMS_WITH_VARSWAP_FIT"
    THEN LogSvParams(params0.sigma0, params0.theta, params0.kappa1, <<params0.kappa2>>,
                     pars[1], pars[2])
    ELSE [exc |-> "NotImplementedError"]

\* the trial vector of a parameter set under a calibration type
ParsOf(params, model_calibration_type) ==
    IF model_calibration_type = "PARAMS4"
    THEN <<params.sigma0, params.theta, params.beta, params.volvol>>
    ELSE IF model_calibration_type = "PARAMS5"
    THEN <<params.sigma0, params.theta, params.kappa1, params.beta, params.volvol>>
    ELSE <<params.beta, params.volvol>>

\* the bounds of the trial vector
BoundsOf(model_calibration_type) ==
    [lo |-> ParsOf(ParamsMin, model_calibration_type),
     hi |-> ParsOf(ParamsMax, model_calibration_type)]

\* the weights of one slice under vega weighting: its vegas over their sum
VegaWeightsUnnormalised(vegas_ttm) == vegas_ttm
VegaWeights(vegas_ttm) ==
    [j \in 1..Len(vegas_ttm) |-> Div(vegas_ttm[j], SumSeq(vegas_ttm))]

\* to_flat_np_array
RECURSIVE ToFlatNpArray(_)
ToFlatNpArray(ss) == IF ss = <<>> THEN <<>> ELSE Head(ss) \o ToFlatNpArray(Tail(ss))

\* compute_model_ivols_for_chain: the model implied vols of the quotes of the chain
ComputeModelIvolsForChain(option_chain, params, vs) ==
    [k \in 1..Len(option_chain.ttms) |->
        [j \in 1..Len(option_chain.market_vols[k]) |->
            params.sigma0
              + MulTicks(Mul(params.kappa1, params.theta - params.sigma0),
                         option_chain.ttms[k])
              + Mul(params.beta, 50 * (j - 2))
              + Mul(params.volvol, 10 * (j - 2) * (j - 2))]]

\* compute_model_ivols_from_chain_data: implied vols from prices
ComputeModelIvolsFromChainData(option_chain, model_prices) ==
    [k \in 1..Len(option_chain.ttms) |->
        [j \in 1..Len(option_chain.market_vols[k]) |-> model_prices[k]]]

RECURSIVE McFixedRandomsPrices(_, _, _, _, _, _, _, _)
\* logsv_mc_chain_pricer_fixed_randoms as a function: the prices of maturities k..
McFixedRandomsPrices(ttms, k, t0, st, W0s_, W1s_, dts_, params) ==
    IF k > Len(ttms) THEN <<>>
    ELSE LET f == TerminalRun(TerminalEnter(ChainIncrement(ttms[k], t0), st.x0, st.sigma0,
                      st.qvar0, params, GetVolBackboneEta(params, ttms[k]), TRUE,
                      Len(st.x0), NbStepsPerYearDefault, W0s_[k], W1s_[k], dts_[k],
                      0).frame)
         IN  <<ComputeMcVarsPayoff(f.x0, f.sigma0, f.qvar0, ttms[k])>>
               \o McFixedRandomsPrices(ttms, k + 1, ttms[k],
                      [x0 |-> f.x0, sigma0 |-> f.sigma0, qvar0 |-> f.qvar0],
                      W0s_, W1s_, dts_, params)

\* a model implied vol is NaN where the inversion of the model price finds no
\* positive vol
IsNan(v) == v <= 0

\* one entry of weights * np.square(model_vols - market_vols) with a NaN vol
\* read as a vol of zero
ResidTermNanAsZero(w, mv, market) ==
    <<Mul(w, Mul(Max(mv, 0) - market, Max(mv, 0) - market))>>

\* one entry of weights * np.square(model_vols - market_vols); <<>> stands for NaN
ResidTerm(w, mv, market) ==
    IF IsNan(mv) THEN <<>> ELSE <<Mul(w, Mul(mv - market, mv - market))>>

\* np.nansum: the sum of the entries that are not NaN
NanSum(s) == SumSeq([i \in 1..Len(s) |-> IF s[i] = <<>> THEN 0 ELSE s[i][1]])

\* objective(pars): the weighted sum of squared vol differences
Objective(pars, a, w, vs, W0s_, W1s_, dts_) ==
    LET params == ParseModelParams(pars, a.model_calibration_type, a.params0)
        nb_path == IF W0s_ = <<>> THEN 1 ELSE Len(W0s_[1][1])
        model_vols ==
            IF a.calibration_engine = "ANALYTIC"
            THEN ComputeModelIvolsForChain(a.option_chain, params, vs)
            ELSE ComputeModelIvolsFromChainData(a.option_chain,
                     McFixedRandomsPrices(a.option_chain.ttms, 1, 0,
                         [x0 |-> Vec(nb_path, 0), sigma0 |-> Vec(nb_path, params.sigma0),
                          qvar0 |-> Vec(nb_path, 0)],
                         W0s_, W1s_, dts_, params))
        mv == ToFlatNpArray(model_vols)
        market == ToFlatNpArray(a.option_chain.market_vols)
    IN  NanSum([i \in 1..Len(market) |-> ResidTerm(w[i], mv[i], market[i])])

\* the parametric constraints
MartingaleMeasure(pars, a) ==
    LET params == ParseModelParams(pars, a.model_calibration_type, a.params0)
    IN  params.kappa2 - params.beta
InverseMeasure(pars, a) ==
    LET params == ParseModelParams(pars, a.model_calibration_type, a.params0)
    IN  params.kappa2 - 2 * params.beta
Vol4thmomentFinite(pars, a) ==
    LET params == ParseModelParams(pars, a.model_calibration_type, a.params0)
        kappa  == params.kappa1 + Mul(params.kappa2, params.theta)
    IN  kappa - (3 * Vartheta2(params)) \div 2

\* the value of the constraint named fun at pars
ConstraintValue(fun, pars, a) ==
    IF fun = "martingale_measure" THEN MartingaleMeasure(pars, a)
    ELSE IF fun = "inverse_measure" THEN InverseMeasure(pars, a)
    ELSE Vol4thmomentFinite(pars, a)

CalibArgs ==
    [option_chain : OptionChains, params0 : ParamSet, is_vega_weighted : BOOLEAN,
     model_calibration_type : LogsvModelCalibrationTypes,
     constraints_type : ConstraintsTypes \cup {"OTHER"},
     calibration_engine : CalibrationEngines,
     nb_path : {MaxPath}, nb_steps : {NbStepsPerYearDefault}, seed : {10}]

InitCalib ==
    /\ entry = "calibrate_model_params_to_chain"
    /\ arg \in CalibArgs
    /\ rng = 0
    /\ pc = "weights"
    /\ exc = "none"
    /\ InitChainLocals
    /\ InitAfeLocals
    /\ InitCalibLocals

\* vol_scaler from the first at-the-money vol and maturity, and the weights
CalibWeights ==
    /\ entry = "calibrate_model_params_to_chain"
    /\ pc = "weights"
    /\ vol_scaler' = SetVolScaler(arg.option_chain.market_vols[1][1],
                                  arg.option_chain.ttms[1])
    /\ weights' =
          IF arg.is_vega_weighted
          THEN ToFlatNpArray([k \in 1..Len(arg.option_chain.vegas_ttms) |->
                                 VegaWeights(arg.option_chain.vegas_ttms[k])])
          ELSE Vec(Len(ToFlatNpArray(arg.option_chain.market_vols)), One)
    /\ pc' = "randoms"
    /\ UNCHANGED <<entry, exc, arg, rng, chain_vars, grids, grid_builds, a_t0,
                   log_mgf_grid, model_prices_ttms, p0, constraints, evals, res,
                   fit_params>>

\* with the MC engine the randoms of the chain are generated and unpacked into
\* three names; the generator returns four values
CalibRandoms ==
    /\ entry = "calibrate_model_params_to_chain"
    /\ pc = "randoms"
    /\ IF arg.calibration_engine = "MC"
       THEN LET g == GetRandomsForChainValuation(arg.option_chain.ttms, arg.nb_path,
                                                 arg.nb_steps, arg.seed)
            IN  /\ rng' = g.rng
                /\ exc' = "ValueError"
                /\ pc' = "raised"
       ELSE /\ pc' = "initial"
            /\ UNCHANGED <<rng, exc>>
    /\ UNCHANGED <<entry, arg, chain_vars, afe_vars, calib_vars>>

\* the initial trial vector and its bounds
CalibInitialParams ==
    /\ entry = "calibrate_model_params_to_chain"
    /\ pc = "initial"
    /\ IF arg.model_calibration_type \in {"PARAMS4", "PARAMS5", "PARAMS_WITH_VARSWAP_FIT"}
       THEN /\ p0' = ParsOf(arg.params0, arg.model_calibration_type)
            /\ pc' = "constraints"
            /\ exc' = exc
       ELSE /\ exc' = "NotImplementedError"
            /\ pc' = "raised"
            /\ p0' = p0
    /\ UNCHANGED <<entry, arg, rng, chain_vars, afe_vars, weights, constraints, evals, res,
                   fit_params>>

\* the constraints of the constraint type
CalibConstraints ==
    /\ entry = "calibrate_model_params_to_chain"
    /\ pc = "constraints"
    /\ IF arg.constraints_type = "UNCONSTRAINT"
       THEN constraints' = <<>> /\ pc' = "minimize" /\ exc' = exc
       ELSE IF arg.constraints_type = "MMA_MARTINGALE"
       THEN constraints' = <<"martingale_measure">> /\ pc' = "minimize" /\ exc' = exc
       ELSE IF arg.constraints_type = "INVERSE_MARTINGALE"
       THEN constraints' = <<"inverse_measure">> /\ pc' = "minimize" /\ exc' = exc
       ELSE IF arg.constraints_type = "MMA_MARTINGALE_MOMENT4"
       THEN /\ constraints' = <<"martingale_measure", "vol_4thmoment_finite">>
            /\ pc' = "minimize" /\ exc' = exc
       ELSE IF arg.constraints_type = "INVERSE_MARTINGALE_MOMENT4"
       THEN /\ constraints' = <<"inverse_measure", "vol_4thmoment_finite">>
            /\ pc' = "minimize" /\ exc' = exc
       ELSE constraints' = constraints /\ pc' = "raised" /\ exc' = "NotImplementedError"
    /\ UNCHANGED <<entry, arg, rng, chain_vars, afe_vars, weights, p0, evals, res,
                   fit_params>>

\* the trial vectors minimize may visit: within the bounds
TrialVectors(a) ==
    {x \in {ParsOf(t, a.model_calibration_type) : t \in TrialParams} :
        \A i \in 1..Len(x) :
            /\ BoundsOf(a.model_calibration_type).lo[i] <= x[i]
            /\ x[i] <= BoundsOf(a.model_calibration_type).hi[i]}

\* minimize evaluates the objective and the constraints, first at p0
MinimizeEval ==
    /\ entry = "calibrate_model_params_to_chain"
    /\ pc = "minimize"
    /\ Len(evals) < MaxEvals
    /\ \E x \in IF evals = <<>> THEN {p0} ELSE TrialVectors(arg) :
          evals' = Append(evals,
              [pars |-> x,
               value |-> Objective(x, arg, weights, vol_scaler, W0s, W1s, dts),
               cons |-> [c \in 1..Len(constraints) |->
                            ConstraintValue(constraints[c], x, arg)]])
    /\ UNCHANGED <<entry, pc, exc, arg, rng, chain_vars, afe_vars, weights, p0,
                   constraints, res, fit_params>>

\* minimize returns: a converged result is feasible, a failed one is the last
\* iterate whatever it is
MinimizeReturn ==
    /\ entry = "calibrate_model_params_to_chain"
    /\ pc = "minimize"
    /\ \E i \in 1..Len(evals), success \in BOOLEAN :
          /\ success => \A c \in 1..Len(constraints) : evals[i].cons[c] >= 0
          /\ res' = [x |-> evals[i].pars, fun |-> evals[i].value, success |-> success]
    /\ pc' = "return"
    /\ UNCHANGED <<entry, exc, arg, rng, chain_vars, afe_vars, weights, p0, constraints,
                   evals, fit_params>>

\* the parameters parsed from res.x are returned
CalibReturn ==
    /\ entry = "calibrate_model_params_to_chain"
    /\ pc = "return"
    /\ fit_params' = ParseModelParams(res.x, arg.model_calibration_type, arg.params0)
    /\ pc' = "returned"
    /\ UNCHANGED <<entry, exc, arg, rng, chain_vars, afe_vars, weights, p0, constraints,
                   evals, res>>

NextCalib ==
    \/ CalibWeights
    \/ CalibRandoms
    \/ CalibInitialParams
    \/ CalibConstraints
    \/ MinimizeEval
    \/ MinimizeReturn
    \/ CalibReturn

SpecCalib == InitCalib /\ [][NextCalib]_vars

----------------------------------------------------------------------------
(* Properties of the calibrator *)

Calibrating == entry = "calibrate_model_params_to_chain"

\* C5: when the optimizer has not converged the call does not return a plain
\* parameter set: it fails, or what it returns carries the convergence flag.
C5_NonConvergenceSurfaced ==
    (Calibrating /\ pc = "returned") =>
        \/ res.success
        \/ "success" \in DOMAIN fit_params

\* C6: under MMA_MARTINGALE every returned parameter set satisfies
\* kappa2 - beta >= 0, for every calibration type and termination status.
C6_MartingaleOnReturn ==
    (Calibrating /\ pc = "returned" /\ arg.constraints_type = "MMA_MARTINGALE") =>
        fit_params.kappa2 - fit_params.beta >= 0

\* the constraints a constraint type stands for
ConstraintsOf(constraints_type) ==
    CASE constraints_type = "UNCONSTRAINT" -> <<>>
      [] constraints_type = "MMA_MARTINGALE" -> <<"martingale_measure">>
      [] constraints_type = "INVERSE_MARTINGALE" -> <<"inverse_measure">>
      [] constraints_type = "MMA_MARTINGALE_MOMENT4" ->
            <<"martingale_measure", "vol_4thmoment_finite">>
      [] constraints_type = "INVERSE_MARTINGALE_MOMENT4" ->
            <<"inverse_measure", "vol_4thmoment_finite">>

\* the constraints in force are those of the constraint type, evaluated on the
\* parameters parsed from the trial vector; another constraint type never reaches
\* the optimizer
ConstraintsSelected ==
    Calibrating =>
        /\ pc \in {"minimize", "return", "returned"} =>
              /\ arg.constraints_type \in ConstraintsTypes
              /\ constraints = ConstraintsOf(arg.constraints_type)
              /\ \A e \in 1..Len(evals) : \A c \in 1..Len(constraints) :
                    LET params == ParseModelParams(evals[e].pars,
                                      arg.model_calibration_type, arg.params0)
                    IN  evals[e].cons[c] =
                          CASE constraints[c] = "martingale_measure" ->
                                  params.kappa2 - params.beta
                            [] constraints[c] = "inverse_measure" ->
                                  params.kappa2 - 2 * params.beta
                            [] constraints[c] = "vol_4thmoment_finite" ->
                                  params.kappa1 + Mul(params.kappa2, params.theta)
                                    - (3 * (Mul(params.beta, params.beta)
                                            + Mul(params.volvol, params.volvol))) \div 2
        /\ arg.constraints_type \notin ConstraintsTypes => evals = <<>>

\* C7: the constraint type selects exactly its constraints, each evaluated on the
\* parameters parsed from the trial vector; with any other value the call ends in
\* NotImplementedError before the optimizer runs.
C7_ConstraintSelection ==
    /\ ConstraintsSelected
    /\ (Calibrating /\ arg.constraints_type \notin ConstraintsTypes
          /\ pc \in {"raised", "returned"}) =>
          /\ pc = "raised"
          /\ exc = "NotImplementedError"

\* the same with the transform engine only
ConstraintSelectionAnalytic ==
    (Calibrating /\ arg.calibration_engine = "ANALYTIC") => C7_ConstraintSelection

\* C8: with the MC engine the increments are generated once, from the seed, before
\* the optimisation; the call goes on to optimise on them, every evaluation leaves
\* the generator alone and equal trial vectors get equal objective values.
C8_FrozenRandoms ==
    (Calibrating /\ arg.calibration_engine = "MC" /\ pc \notin {"weights", "randoms"}) =>
        LET g == GetRandomsForChainValuation(arg.option_chain.ttms, arg.nb_path,
                                             arg.nb_steps, arg.seed)
        IN  /\ exc # "ValueError"
            /\ W0s = g.W0s /\ W1s = g.W1s /\ dts = g.dts
            /\ rng = g.rng
            /\ \A i, j \in 1..Len(evals) :
                  evals[i].pars = evals[j].pars => evals[i].value = evals[j].value

\* the quotes of slice k within the flattened arrays
SliceStart(option_chain, k) ==
    SumSeq([i \in 1..(k - 1) |-> Len(option_chain.vegas_ttms[i])])
SliceWeights(option_chain, k) ==
    SubSeq(weights, SliceStart(option_chain, k) + 1,
           SliceStart(option_chain, k) + Len(option_chain.vegas_ttms[k]))

\* C9: with vega weighting the weights of a slice are its vegas over their sum, so
\* the weights of every slice sum to one (up to the rounding of each quotient) and
\* the flattened weights to the number of maturities; without it every weight is 1.
C9_VegaWeightsNormalised ==
    (Calibrating /\ pc # "weights") =>
        LET oc == arg.option_chain
            n  == Len(ToFlatNpArray(oc.market_vols))
        IN  /\ Len(weights) = n
            /\ arg.is_vega_weighted =>
                  /\ \A k \in 1..Len(oc.ttms) :
                        LET w == SliceWeights(oc, k)
                        IN  /\ \A j \in 1..Len(w) :
                                  w[j] = Div(oc.vegas_ttms[k][j], SumSeq(oc.vegas_ttms[k]))
                            /\ Abs(SumSeq(w) - One) <= Len(w)
                  /\ Abs(SumSeq(weights) - Len(oc.ttms) * One) <= n
            /\ ~arg.is_vega_weighted => \A i \in 1..n : weights[i] = One

\* vega weights of a chain whose two slices have two and three strikes
C9_Witness ==
    /\ Calibrating
    /\ pc = "returned"
    /\ arg.is_vega_weighted
    /\ Len(arg.option_chain.ttms) = 2
    /\ Len(SliceWeights(arg.option_chain, 1)) = 2
    /\ Len(SliceWeights(arg.option_chain, 2)) = 3
    /\ weights[1] # weights[2]
    /\ weights[1] # weights[3]

----------------------------------------------------------------------------
(* simulate_roughvol_paths *)

\* np.reshape of a flat row of nb_steps * nb_path values to (nb_steps, nb_path)
Reshape(row, n, p) == [t \in 1..n |-> [q \in 1..p |-> row[(t - 1) * p + q]]]

\* a flat row of n standard normals drawn from generator state r
FlatNormal(r, n) == [j \in 1..n |-> Normal(RngAfter(r, j))]

\* Z.shape == (2, n) for a Z that is an array of flat rows
IsFlatShape(Z, n) == Len(Z) = 2 /\ \A k \in 1..Len(Z) : Len(Z[k]) = n

\* the simulator up to its time loop.  Z = <<>> stands for None, which has no
\* shape: the shape test then raises AttributeError.
RoughPathsEnter(ttm, par, H, is_spot_measure, nb_path, nb_steps_per_year, Z) ==
    LET alpha == H - Half
        tg    == SetTimeGrid(ttm, nb_steps_per_year)
        n     == tg.nb_steps * nb_path
        cov   == RoughCov(tg.dt, alpha)
        A     == Cholesky(cov)
        ker   == ApproximatKernel(alpha, tg.nb_steps, tg.dt, ttm)
        s     == Vec(nb_path, par.sigma0)
        exc_  == IF Z = <<>> THEN "AttributeError"
                 ELSE IF ~IsFlatShape(Z, n) THEN "AssertionError"
                 ELSE "none"
        Z0    == Reshape(Z[1], tg.nb_steps, nb_path)
        Z1    == Reshape(Z[2], tg.nb_steps, nb_path)
    IN  [exc |-> exc_,
         frame |->
            IF exc_ # "none" THEN NoFrame
            ELSE [fn |-> "simulate_roughvol_paths",
                  nb_path |-> nb_path, par |-> par, dt |-> tg.dt,
                  nb_steps |-> tg.nb_steps, i_ |-> 0,
                  total_vol |-> Sqrt(Mul(par.beta, par.beta) + Mul(par.volvol, par.volvol)),
                  dWs0 |-> Scaled(Z0, A.a00),
                  dWs1 |-> [t \in 1..tg.nb_steps |-> [q \in 1..nb_path |->
                               Mul(A.a10, Z0[t][q]) + Mul(A.a11, Z1[t][q])]],
                  coeff1 |-> [j \in 1..Len(ker.c) |->
                                 Mul(ker.c[j], Exp(-MulDt(ker.gamm[j], tg.dt)))],
                  coeff2 |-> [j \in 1..Len(ker.c) |->
                                 Div(One, One + MulDt(ker.gamm[j], tg.dt))],
                  drift_factor |-> cov.c10,
                  U |-> [j \in 1..Len(ker.c) |-> Vec(nb_path, 0)],
                  drft_prev |-> Vec(nb_path, 0), vol_prev |-> Vec(nb_path, 0),
                  x0 |-> s, Xi |-> s, X_out |-> <<s>>, grid_end |-> tg.grid_end]]

\* one pass of the time loop for one path
RoughPathsStepPath(f, q) ==
    LET i         == f.i_ + 1
        first     == i = 1
        cur       == IF first THEN f.x0[q] ELSE f.Xi[q]
        drft_term == Mul(f.par.kappa1 + Mul(f.par.kappa2, cur), f.par.theta - cur)
        vol_term  == Mul(f.total_vol, cur)
        U1        == IF first THEN [j \in 1..Len(f.coeff1) |-> f.U[j][q]]
                     ELSE [j \in 1..Len(f.coeff1) |->
                              Mul(f.coeff2[j],
                                  f.U[j][q] + MulDt(f.drft_prev[q], f.dt)
                                    + Mul(f.vol_prev[q], f.dWs0[i - 1][q]))]
        lift      == SumSeq([j \in 1..Len(f.coeff1) |-> Mul(f.coeff1[j], U1[j])])
        X1        == StepVol(f.x0[q] + (IF first THEN 0 ELSE lift)
                         + MulDt(drft_term, f.drift_factor) + Mul(vol_term, f.dWs1[i][q]))
    IN  [Xi |-> X1, U |-> U1, drft_prev |-> drft_term, vol_prev |-> vol_term]

\* the body of the time loop, all paths at once
RoughPathsStep(f) ==
    LET r  == [q \in 1..f.nb_path |-> RoughPathsStepPath(f, q)]
        Xi == [q \in 1..f.nb_path |-> r[q].Xi]
    IN  [f EXCEPT !.i_ = f.i_ + 1,
                  !.Xi = Xi,
                  !.U = [j \in 1..Len(f.coeff1) |-> [q \in 1..f.nb_path |-> r[q].U[j]]],
                  !.drft_prev = [q \in 1..f.nb_path |-> r[q].drft_prev],
                  !.vol_prev = [q \in 1..f.nb_path |-> r[q].vol_prev],
                  !.X_out = Append(f.X_out, Xi)]

----------------------------------------------------------------------------
(* State machine of the simulators called on their own and of
   LogSVPricer.simulate_vol_paths *)

\* H of LogSvParams is held in 1/HScale so that 0.5 - 1e-4 is a value
HScale == 10 * Scale
HToScale(H) == H \div (HScale \div Scale)
HThreshold == HScale \div 2 - 1

DispatchHSet == {-HScale \div 10, 0, HScale \div 10, HThreshold - 1, HThreshold, HScale \div 2, (7 * HScale) \div 10}
HWideSet == HSet \cup {One + One \div 5}
BrownianKinds == {"None", "steps_by_paths", "two_by_flat"}

SimEntries == {"LogSVPricer.simulate_vol_paths", "simulate_roughvol_paths", "simulate_rough_logsv_x_vol_terminal"}

MethodArgs ==
    [par : ParamSet, H : DispatchHSet, brownians : BrownianKinds, ttm : TtmSet,
     nb_path : PathCounts, is_spot_measure : BOOLEAN,
     nb_steps : {<<>>, <<TicksPerYear>>}, year_days : {NbStepsPerYearDefault}]

RoughPathsArgs ==
    [par : ParamSet, H : HWideSet, ttm : TtmSet, nb_path : PathCounts,
     is_spot_measure : BOOLEAN, nb_steps_per_year : StepsPerYearSet,
     brownians : {"None", "two_by_flat"}]

RoughTerminalArgs ==
    [par : ParamSet, H : HWideSet, ttm : TtmSet, nb_path : PathCounts,
     eta : {One}, is_spot_measure : BOOLEAN, nb_steps_per_year : StepsPerYearSet,
     supplied : BOOLEAN]

InitSim ==
    /\ entry \in SimEntries
    /\ arg \in CASE entry = "LogSVPricer.simulate_vol_paths" -> MethodArgs
                 [] entry = "simulate_roughvol_paths" -> RoughPathsArgs
                 [] OTHER -> RoughTerminalArgs
    /\ rng \in 0..(RngMod - 1)
    /\ pc = "start"
    /\ exc = "none"
    /\ InitChainLocals
    /\ InitAfeLocals
    /\ InitCalibLocals

\* the array of randoms a caller holds before the call, drawn in generator
\* state r on the grid of the call: None, the shape simulate_vol_paths takes or
\* the shape simulate_roughvol_paths takes
CallerBrownians(kind, r, ttm, nb_path, nb_steps_per_year) ==
    LET tg == SetTimeGrid(ttm, nb_steps_per_year)
        n  == tg.nb_steps * nb_path
    IN  CASE kind = "None" -> <<>>
          [] kind = "steps_by_paths" ->
                 Scaled(RandomNormal(r, tg.nb_steps, nb_path), SqrtDt(tg.dt))
          [] kind = "two_by_flat" -> <<FlatNormal(r, n), FlatNormal(RngAfter(r, n), n)>>

\* nb_steps or int(np.ceil(year_days * ttm))
MethodNbSteps(nb_steps_, year_days, ttm) ==
    IF nb_steps_ # <<>> /\ nb_steps_[1] # 0 THEN nb_steps_[1]
    ELSE (year_days * ttm + TicksPerYear - 1) \div TicksPerYear

\* the branch LogSVPricer.simulate_vol_paths takes for params.H
MethodBranchRoundThreshold(H) ==
    IF H >= HScale \div 2 THEN "simulate_vol_paths"
    ELSE IF 0 < H /\ H < HScale \div 2 THEN "simulate_roughvol_paths"
    ELSE "NotImplementedError"
MethodBranch(H) ==
    IF H >= HThreshold THEN "simulate_vol_paths"
    ELSE IF 0 < H /\ H < HThreshold THEN "simulate_roughvol_paths"
    ELSE "NotImplementedError"

\* LogSVPricer.simulate_vol_paths up to the time loop of the simulator it calls
MethodDispatch ==
    /\ entry = "LogSVPricer.simulate_vol_paths"
    /\ pc = "start"
    /\ LET n  == MethodNbSteps(arg.nb_steps, arg.year_days, arg.ttm)
           b  == CallerBrownians(arg.brownians, rng, arg.ttm, arg.nb_path, n)
           br == MethodBranch(arg.H)
           ev == VolPathsEnter(arg.ttm, arg.par, arg.is_spot_measure, arg.nb_path, n, b, rng)
           er == RoughPathsEnter(arg.ttm, arg.par, HToScale(arg.H), arg.is_spot_measure,
                                 arg.nb_path, n, b)
       IN  CASE br = "simulate_vol_paths" ->
                  /\ frame' = IF ev.shape_ok THEN ev.frame ELSE NoFrame
                  /\ rng' = ev.rng
                  /\ exc' = IF ev.shape_ok THEN "none" ELSE "AssertionError"
                  /\ pc' = IF ev.shape_ok THEN "sim" ELSE "raised"
                  /\ sim_calls' = <<[fn |-> br, nb_steps_per_year |-> n, brownians |-> b]>>
             [] br = "simulate_roughvol_paths" ->
                  /\ frame' = er.frame
                  /\ rng' = rng
                  /\ exc' = er.exc
                  /\ pc' = IF er.exc = "none" THEN "sim" ELSE "raised"
                  /\ sim_calls' = <<[fn |-> br, nb_steps_per_year |-> n, brownians |-> b]>>
             [] OTHER ->
                  /\ frame' = NoFrame
                  /\ rng' = rng
                  /\ exc' = "NotImplementedError"
                  /\ pc' = "raised"
                  /\ sim_calls' = <<>>
    /\ UNCHANGED <<afe_vars, calib_vars, entry, arg, W0s, W1s, dts, nb_steps, x0, sigma0, qvar0, ttm0, idx,
                   option_prices_ttm>>

\* simulate_roughvol_paths called on its own, up to its time loop
RoughPathsCall ==
    /\ entry = "simulate_roughvol_paths"
    /\ pc = "start"
    /\ LET b == CallerBrownians(arg.brownians, rng, arg.ttm, arg.nb_path, arg.nb_steps_per_year)
           e == RoughPathsEnter(arg.ttm, arg.par, arg.H, arg.is_spot_measure, arg.nb_path,
                                arg.nb_steps_per_year, b)
       IN  /\ frame' = e.frame
           /\ exc' = e.exc
           /\ pc' = IF e.exc = "none" THEN "sim" ELSE "raised"
           /\ sim_calls' = <<[fn |-> "simulate_roughvol_paths",
                              nb_steps_per_year |-> arg.nb_steps_per_year, brownians |-> b]>>
    /\ UNCHANGED <<afe_vars, calib_vars, entry, arg, rng, W0s, W1s, dts, nb_steps, x0, sigma0, qvar0, ttm0,
                   idx, option_prices_ttm>>

\* one pass of simulate_roughvol_paths's time loop
RoughPathsLoop ==
    /\ pc = "sim"
    /\ frame.fn = "simulate_roughvol_paths"
    /\ frame.i_ < frame.nb_steps
    /\ frame' = RoughPathsStep(frame)
    /\ UNCHANGED <<afe_vars, calib_vars, entry, pc, exc, arg, rng, W0s, W1s, dts, nb_steps, x0, sigma0, qvar0,
                   ttm0, idx, sim_calls, option_prices_ttm>>

\* simulate_roughvol_paths returns X_out and grid_t
RoughPathsReturn ==
    /\ pc = "sim"
    /\ frame.fn = "simulate_roughvol_paths"
    /\ frame.i_ = frame.nb_steps
    /\ pc' = "done"
    /\ UNCHANGED <<afe_vars, calib_vars, entry, exc, arg, rng, W0s, W1s, dts, nb_steps, x0, sigma0, qvar0,
                   ttm0, idx, frame, sim_calls, option_prices_ttm>>

\* simulate_rough_logsv_x_vol_terminal called on its own with initial values of
\* shape (1,), up to its time loop; supplied randoms are drawn by the caller on
\* the grid of the call
RoughTerminalCall ==
    /\ entry = "simulate_rough_logsv_x_vol_terminal"
    /\ pc = "start"
    /\ LET tg == SetTimeGrid(arg.ttm, arg.nb_steps_per_year)
           n  == tg.nb_steps * arg.nb_path
           W0 == IF arg.supplied THEN RandomNormal(rng, tg.nb_steps, arg.nb_path) ELSE <<>>
           W1 == IF arg.supplied
                 THEN <<RandomNormal(RngAfter(rng, n), tg.nb_steps, arg.nb_path),
                        RandomNormal(RngAfter(rng, 2 * n), tg.nb_steps, arg.nb_path)>>
                 ELSE <<>>
           e  == RoughEnter(arg.ttm, <<0>>, <<arg.par.sigma0>>, <<0>>, arg.par, arg.H,
                            arg.eta, arg.is_spot_measure, arg.nb_path,
                            arg.nb_steps_per_year, W0, W1, rng)
       IN  /\ frame' = e.frame
           /\ rng' = e.rng
           /\ exc' = e.exc
           /\ pc' = IF e.exc = "none" THEN "sim" ELSE "raised"
           /\ sim_calls' = <<[fn |-> "simulate_rough_logsv_x_vol_terminal",
                              nb_steps_per_year |-> arg.nb_steps_per_year, W0 |-> W0, W1 |-> W1]>>
    /\ UNCHANGED <<afe_vars, calib_vars, entry, arg, W0s, W1s, dts, nb_steps, x0, sigma0, qvar0, ttm0, idx,
                   option_prices_ttm>>

\* simulate_rough_logsv_x_vol_terminal returns x_i, sigma_i, qvar_i
RoughTerminalReturn ==
    /\ entry = "simulate_rough_logsv_x_vol_terminal"
    /\ pc = "sim"
    /\ frame.fn = "simulate_rough_logsv_x_vol_terminal"
    /\ frame.i_ = frame.nb_steps
    /\ pc' = "done"
    /\ UNCHANGED <<afe_vars, calib_vars, entry, exc, arg, rng, W0s, W1s, dts, nb_steps, x0, sigma0, qvar0,
                   ttm0, idx, frame, sim_calls, option_prices_ttm>>

NextSim ==
    \/ MethodDispatch
    \/ VolPathsLoop
    \/ VolPathsReturn
    \/ RoughPathsCall
    \/ RoughPathsLoop
    \/ RoughPathsReturn
    \/ RoughTerminalCall
    \/ RoughLoop
    \/ RoughTerminalReturn

SpecSim == InitSim /\ [][NextSim]_vars

\* C11: every volatility value the two rough simulators store in a time step or
\* return is non-negative: the projection is applied to the update of every
\* step, the first included.
C11_RoughVolNonNegative ==
    /\ frame.fn = "simulate_roughvol_paths" =>
           \A t \in 2..Len(frame.X_out) : \A q \in 1..frame.nb_path : frame.X_out[t][q] >= 0
    /\ (frame.fn = "simulate_rough_logsv_x_vol_terminal" /\ frame.i_ > 0) =>
           \A q \in 1..frame.nb_path : frame.sigma_i[q] >= 0

\* simulate_roughvol_paths has returned a path whose first step was set to
\* zero by the projection and a later one that came back from a positive value
C11_Witness ==
    /\ pc = "done"
    /\ frame.fn = "simulate_roughvol_paths"
    /\ \E q \in 1..frame.nb_path : frame.X_out[2][q] = 0
    /\ \E t \in 3..Len(frame.X_out) : \E q \in 1..frame.nb_path :
           frame.X_out[t][q] = 0 /\ frame.X_out[t - 1][q] > 0

\* whether the caller of the simulator call c supplied the randoms
RandomsSupplied(c) ==
    IF c.fn = "simulate_rough_logsv_x_vol_terminal" THEN c.W0 # <<>> ELSE c.brownians # <<>>

\* C12 as claimed: every simulator supports both random modes: called with
\* randoms it draws none from the generator, called without it draws its own
\* and so does not fail for want of an array.
C12_BothRandomModes ==
    [][(pc = "start" /\ sim_calls' # <<>>) =>
          /\ RandomsSupplied(sim_calls'[1]) => rng' = rng
          /\ ~RandomsSupplied(sim_calls'[1]) => exc' # "AttributeError"]_vars

----------------------------------------------------------------------------
(* calc_mc_vols and do_mc_simulation of the factor HJM swaption pricer *)

HjmTtmSet == {TicksPerYear \div 4, TicksPerYear}
HjmSeedSet == {<<>>} \cup {<<sd>> : sd \in SeedSet}
BasisTypes == {"NELSON-SIEGEL", "CHEYETTE"}

\* simulate_logsv_MF: the factor of every path at ttm.  seed = <<>> stands for
\* None: the draws then continue the process-wide generator from state r, else
\* the generator is seeded first.
SimulateLogsvMF(ttm, x, sigma, nb_path, seed, r) ==
    LET r0 == IF seed = <<>> THEN r ELSE SetSeed(seed[1])
        sd == Sqrt(Years(ttm))
    IN  [x0 |-> [q \in 1..nb_path |->
                    x[q] + Mul(Mul(sigma[q], sd), Normal(RngAfter(r0, q))) \div 100],
         rng |-> RngAfter(r0, nb_path)]

\* the forward swap rate of a tenor: 4.6% for 2y, 4.0% for 5y
SwapForward(tenor) == ((50 - 2 * tenor) * Scale) \div 1000

\* the forwards argument of a call, one array of one forward per tenor
ArgForwards(a) ==
    [k \in 1..a.nb_forwards |->
        SwapForward(IF k <= Len(a.tenors) THEN a.tenors[k] ELSE 10)]

\* basis.calculate_swap_rate: one factor with unit loading on the forward swap
\* rate of the tenor, unit annuity and numeraire
CalculateSwapRate(x, tenor) ==
    [swap_mc |-> [q \in 1..Len(x) |-> SwapForward(tenor) + x[q]],
     ann_mc |-> Vec(Len(x), One), numer_mc |-> Vec(Len(x), One)]

\* the Bachelier vol of a call price: the time value over forward and strike
\* inverted at the money
Sqrt2Pi == (2507 * Scale) \div 1000
InferNormalIvol(price, ttm, forward, strike) ==
    Div(Mul(Max(price - Max(forward - strike, 0), 0), Sqrt2Pi), Sqrt(Years(ttm)))

\* bachel.infer_normal_ivols_from_chain_prices: the slices of a chain are the
\* entries of its arrays at the same index
InferNormalIvolsFromChainPrices(ttms, forwards, strikes_ttms, model_prices) ==
    [i \in 1..Min(Min(Len(ttms), Len(forwards)), Min(Len(strikes_ttms), Len(model_prices))) |->
        InferNormalIvol(model_prices[i], ttms[i], forwards[i], strikes_ttms[i])]

\* np.nanmean and np.nanstd of a vector
Mean(v) == SumSeq(v) \div Len(v)
Std(v) == Sqrt(Mean([q \in 1..Len(v) |-> Mul(v[q] - Mean(v), v[q] - Mean(v))]))

\* the seed calc_mc_vols hands to do_mc_simulation when it received seed
CalcMcVolsSeed(seed) == <<>>

\* do_mc_simulation
DoMcSimulation(basis_type, ttm, x, sigma, nb_path, seed, r) ==
    IF basis_type # "NELSON-SIEGEL"
    THEN [exc |-> "NotImplementedError", x0 |-> <<>>, rng |-> r]
    ELSE LET sim == SimulateLogsvMF(ttm, x, sigma, nb_path, seed, r)
         IN  [exc |-> "none", x0 |-> sim.x0, rng |-> sim.rng]

std_factor == (1960 * Scale) \div 1000

\* one pass of calc_mc_vols's loop over tenors: price, vol and band of the
\* at-the-money payer on the simulated factor x
TenorVols(x, ttm, tenor, strike, nb_path, forwards) ==
    LET sw   == CalculateSwapRate(x, tenor)
        pay  == [q \in 1..Len(x) |->
                    Mul(Mul(Div(One, sw.numer_mc[q]), sw.ann_mc[q]),
                        Max(sw.swap_mc[q] - strike, 0))]
        mean == Mean(pay)
        std  == Div(Std(pay), Sqrt(nb_path * One))
        up   == mean + Mul(std_factor, std)
        down == Max(mean - Mul(std_factor, std), 0)
        ttms == <<ttm>>
    IN  [mc_prices |-> mean,
         mc_vols |-> InferNormalIvolsFromChainPrices(ttms, forwards, <<strike>>, <<mean>>)[1],
         mc_vols_ups |-> InferNormalIvolsFromChainPrices(ttms, forwards, <<strike>>, <<up>>)[1],
         mc_vols_downs |-> InferNormalIvolsFromChainPrices(ttms, forwards, <<strike>>, <<down>>)[1]]

HjmArgs ==
    [basis_type : BasisTypes, ttm : HjmTtmSet, tenors : {<<2>>, <<2, 5>>},
     nb_forwards : 1..2, is_annuity_measure : BOOLEAN, nb_path : PathCounts,
     seed : HjmSeedSet]

InitHjm ==
    /\ entry = "calc_mc_vols"
    /\ arg \in HjmArgs
    /\ rng \in 0..(RngMod - 1)
    /\ pc = "start"
    /\ exc = "none"
    /\ InitChainLocals
    /\ InitAfeLocals
    /\ InitCalibLocals

\* the checks and the default initial values
CalcMcVolsStart ==
    /\ entry = "calc_mc_vols"
    /\ pc = "start"
    /\ LET ok == arg.nb_forwards = Len(arg.tenors) /\ ~arg.is_annuity_measure
       IN  /\ exc' = IF ok THEN "none" ELSE "AssertionError"
           /\ pc' = IF ok THEN "simulate" ELSE "raised"
           /\ x0' = IF ok THEN Vec(arg.nb_path, 0) ELSE x0
           /\ sigma0' = IF ok THEN Vec(arg.nb_path, One) ELSE sigma0
    /\ UNCHANGED <<afe_vars, calib_vars, entry, arg, rng, W0s, W1s, dts, nb_steps, qvar0, ttm0, idx, frame,
                   sim_calls, option_prices_ttm>>

\* the call of do_mc_simulation
CalcMcVolsSimulate ==
    /\ entry = "calc_mc_vols"
    /\ pc = "simulate"
    /\ LET seed == CalcMcVolsSeed(arg.seed)
           sim  == DoMcSimulation(arg.basis_type, arg.ttm, x0, sigma0, arg.nb_path, seed, rng)
       IN  /\ sim_calls' = <<[fn |-> "do_mc_simulation", seed |-> seed, generator |-> rng]>>
           /\ exc' = sim.exc
           /\ pc' = IF sim.exc = "none" THEN "tenors" ELSE "raised"
           /\ x0' = IF sim.exc = "none" THEN sim.x0 ELSE x0
           /\ rng' = sim.rng
    /\ idx' = 0
    /\ UNCHANGED <<afe_vars, calib_vars, entry, arg, W0s, W1s, dts, nb_steps, sigma0, qvar0, ttm0, frame,
                   option_prices_ttm>>

\* one pass of the loop over tenors
CalcMcVolsTenor ==
    /\ entry = "calc_mc_vols"
    /\ pc = "tenors"
    /\ idx < Len(arg.tenors)
    /\ option_prices_ttm' = Append(option_prices_ttm,
           TenorVols(x0, arg.ttm, arg.tenors[idx + 1], ArgForwards(arg)[idx + 1],
                     arg.nb_path, ArgForwards(arg)))
    /\ idx' = idx + 1
    /\ UNCHANGED <<afe_vars, calib_vars, entry, pc, exc, arg, rng, W0s, W1s, dts, nb_steps, x0, sigma0, qvar0,
                   ttm0, frame, sim_calls>>

\* calc_mc_vols returns mc_prices, mc_vols, mc_vols_ups, mc_vols_downs
CalcMcVolsReturn ==
    /\ entry = "calc_mc_vols"
    /\ pc = "tenors"
    /\ idx = Len(arg.tenors)
    /\ pc' = "done"
    /\ UNCHANGED <<afe_vars, calib_vars, entry, exc, arg, rng, W0s, W1s, dts, nb_steps, x0, sigma0, qvar0,
                   ttm0, idx, frame, sim_calls, option_prices_ttm>>

NextHjm ==
    \/ CalcMcVolsStart
    \/ CalcMcVolsSimulate
    \/ CalcMcVolsTenor
    \/ CalcMcVolsReturn

SpecHjm == InitHjm /\ [][NextHjm]_vars

\* what calc_mc_vols returns when the simulation runs on the seed sd
SeededVols(a, sd) ==
    LET sim == DoMcSimulation(a.basis_type, a.ttm, Vec(a.nb_path, 0), Vec(a.nb_path, One),
                              a.nb_path, <<sd>>, 0)
    IN  [k \in 1..Len(a.tenors) |->
            TenorVols(sim.x0, a.ttm, a.tenors[k], ArgForwards(a)[k], a.nb_path,
                      ArgForwards(a))]

\* C13 as claimed: calc_mc_vols is deterministic given its seed: the seed it
\* receives is the seed the simulation runs on, so what it returns for a seed
\* that is not None is what the stream of that seed gives, whatever state the
\* process-wide generator was in.
C13_SeedDeterminesResult ==
    /\ (sim_calls # <<>> /\ sim_calls[1].fn = "do_mc_simulation") =>
           sim_calls[1].seed = arg.seed
    /\ (entry = "calc_mc_vols" /\ pc = "done" /\ arg.seed # <<>>) =>
           option_prices_ttm = SeededVols(arg, arg.seed[1])

----------------------------------------------------------------------------
(* Unsupported configurations *)

\* C14 as claimed: logsv_chain_pricer called with a variable type other than
\* LOG_RETURN or Q_VAR fails with NotImplementedError, returns no prices for any
\* maturity, and has made no call of the expansion engine when it fails.
C14_UnsupportedTypeFailsFirst ==
    (entry = "logsv_chain_pricer" /\ arg.variable_type \notin {"LOG_RETURN", "Q_VAR"}) =>
        /\ pc # "done"
        /\ model_prices_ttms = <<>>
        /\ pc = "raised" => exc = "NotImplementedError"
        /\ sim_calls = <<>>

\* a calibration call of type PARAMS6 never reaches the optimizer: no objective
\* evaluation, no result, no fitted parameters
Params6NeverOptimised ==
    (Calibrating /\ arg.model_calibration_type = "PARAMS6") =>
        /\ evals = <<>> /\ res = None /\ fit_params = None
        /\ pc \notin {"minimize", "return", "returned"}

\* C15 as claimed: calibrate_model_params_to_chain called with PARAMS6 ends in
\* NotImplementedError, under both calibration engines, before the optimizer is
\* invoked and before any objective evaluation; no fitted parameters come back.
C15_Params6NotImplemented ==
    /\ Params6NeverOptimised
    /\ (Calibrating /\ arg.model_calibration_type = "PARAMS6" /\ pc = "raised") =>
           exc = "NotImplementedError"

\* the same with the transform engine only
Params6NotImplementedAnalytic ==
    (Calibrating /\ arg.calibration_engine = "ANALYTIC") => C15_Params6NotImplemented

----------------------------------------------------------------------------
(* Selection of the scheme by the Hurst exponent *)

\* the simulator LogSVPricer.simulate_vol_paths has called, "none" before a call
Dispatched == IF sim_calls = <<>> THEN "none" ELSE sim_calls[1].fn

\* the call has gone to simulator fn and to no other
OnlyScheme(fn) == Dispatched = fn /\ frame.fn \in {"none", fn}

\* the call has ended in NotImplementedError without a simulator being called
RefusedH == Dispatched = "none" /\ frame = NoFrame /\ pc = "raised" /\ exc = "NotImplementedError"

\* C16 as claimed: the scheme follows from H alone: H in (0, 0.5) runs the
\* rough-kernel scheme, H = 0.5 and H > 0.5 run the standard scheme, H <= 0
\* raises NotImplementedError without simulating.
C16_SchemeByHurst ==
    (entry = "LogSVPricer.simulate_vol_paths" /\ pc # "start") =>
        /\ (0 < arg.H /\ 2 * arg.H < HScale) => OnlyScheme("simulate_roughvol_paths")
        /\ 2 * arg.H >= HScale => OnlyScheme("simulate_vol_paths")
        /\ arg.H <= 0 => RefusedH

\* C16: the scheme follows from H alone with the boundary at 0.5 - 1e-4: H in
\* (0, 0.4999) calls the rough-kernel simulator, H >= 0.4999 calls the standard
\* simulator, H <= 0 raises NotImplementedError without simulating.
C16_SchemeByHurstTolerance ==
    (entry = "LogSVPricer.simulate_vol_paths" /\ pc # "start") =>
        /\ (0 < arg.H /\ 10000 * arg.H < 4999 * HScale) => OnlyScheme("simulate_roughvol_paths")
        /\ 10000 * arg.H >= 4999 * HScale => OnlyScheme("simulate_vol_paths")
        /\ arg.H <= 0 => RefusedH

\* the standard scheme has run to its end for an H just below 0.5
C16_Witness ==
    /\ entry = "LogSVPricer.simulate_vol_paths"
    /\ pc = "done"
    /\ 10000 * arg.H >= 4999 * HScale /\ 2 * arg.H < HScale
    /\ frame.fn = "simulate_vol_paths"
    /\ Len(frame.sigma_t) = frame.nb_steps + 1

\* C17 as claimed: the rough-kernel scheme never simulates an increasing
\* kernel: for every H > 0.5 simulate_rough_logsv_x_vol_terminal, called in the
\* spot measure it supports, raises NotImplementedError and returns no terminal
\* state, and simulate_roughvol_paths produces no vol path.
C17_NoIncreasingKernel ==
    /\ (entry = "simulate_rough_logsv_x_vol_terminal" /\ arg.is_spot_measure
          /\ arg.H > Half /\ pc # "start") =>
           pc = "raised" /\ exc = "NotImplementedError" /\ frame = NoFrame
    /\ (entry = "simulate_roughvol_paths" /\ arg.H > Half /\ pc # "start") =>
           pc = "raised" /\ frame = NoFrame

----------------------------------------------------------------------------
(* v0_implied: the short-maturity approximation of the initial vol *)

\* the test that sends v0_implied to the simplified formula
BetaTooHighInclusive(beta) == Abs(beta) >= One
BetaTooHigh(beta) == Abs(beta) > One

\* simple(): atm - (beta2 + volvol2) * ttm / 4.0
V0Simple(atm, beta, volvol, ttm) ==
    atm - Mul(Mul(beta, beta) + Mul(volvol, volvol), ttm) \div 4

\* v0_implied; all arguments and the result are in 1/Scale, ttm in years.  The
\* result is <<v0>>, or <<>> for the NaN np.sqrt gives for a negative argument.
\* denumer is a multiple of 12 / Scale^2 in exact arithmetic, so its magnitude
\* exceeds 1e-10 exactly when it is not zero.
V0Implied(atm, beta, volvol, theta, kappa1, ttm) ==
    LET beta2     == Mul(beta, beta)
        volvol2   == Mul(volvol, volvol)
        vartheta2 == beta2 + volvol2
        b         == 24 * Scale + Mul(beta2, ttm) + 2 * Mul(vartheta2, ttm)
                       - 12 * Mul(kappa1, ttm)
        rad       == Mul(b, b) - Mul(Mul(288 * beta, ttm),
                                     -2 * atm + Mul(Mul(theta, kappa1), ttm))
        numer     == -b + Sqrt(rad)
        denumer   == Mul(12 * beta, ttm)
    IN  IF BetaTooHigh(beta)
        THEN [formula |-> "simple", v0 |-> <<V0Simple(atm, beta, volvol, ttm)>>]
        ELSE IF Abs(12 * beta * ttm) > 0
        THEN [formula |-> "full", v0 |-> IF rad < 0 THEN <<>> ELSE <<Div(numer, denumer)>>]
        ELSE [formula |-> "simple", v0 |-> <<V0Simple(atm, beta, volvol, ttm)>>]

V0Args ==
    [atm : {Half, One}, beta : {-3 * Half, -One, -Half, 0, Half, One, 3 * Half},
     volvol : {(3 * One) \div 4, One}, theta : {Half, One}, kappa1 : {One, 2 * One},
     ttm : {0, One \div 12, One}]

InitV0 ==
    /\ entry = "v0_implied"
    /\ arg \in V0Args
    /\ rng = 0
    /\ pc = "start"
    /\ exc = "none"
    /\ InitChainLocals
    /\ InitAfeLocals
    /\ InitCalibLocals

\* the call of v0_implied; frame holds what it returns
V0ImpliedCall ==
    /\ entry = "v0_implied"
    /\ pc = "start"
    /\ frame' = [fn |-> "v0_implied",
                 ret |-> V0Implied(arg.atm, arg.beta, arg.volvol, arg.theta, arg.kappa1, arg.ttm)]
    /\ pc' = "done"
    /\ UNCHANGED <<afe_vars, calib_vars, entry, exc, arg, rng, W0s, W1s, dts, nb_steps, x0, sigma0, qvar0,
                   ttm0, idx, sim_calls, option_prices_ttm>>

NextV0 == V0ImpliedCall

SpecV0 == InitV0 /\ [][NextV0]_vars

\* the simplified formula on the arguments of the call
SimplifiedV0 ==
    <<arg.atm - ((((arg.beta * arg.beta) \div Scale + (arg.volvol * arg.volvol) \div Scale) * arg.ttm) \div Scale) \div 4>>

\* C18 as claimed: v0_implied never raises; it returns the simplified formula
\* whenever |beta| >= 1 or the denominator 12 * beta * ttm is zero, and uses the
\* full square-root approximation only when |beta| < 1 and the denominator is
\* not zero.
C18_SimplifiedAtOne ==
    (entry = "v0_implied" /\ pc = "done") =>
        /\ exc = "none"
        /\ (Abs(arg.beta) >= One \/ arg.beta * arg.ttm = 0) =>
               frame.ret.formula = "simple" /\ frame.ret.v0 = SimplifiedV0
        /\ frame.ret.formula = "full" => (Abs(arg.beta) < One /\ arg.beta * arg.ttm # 0)

\* C18: v0_implied never raises; it returns the simplified formula whenever
\* |beta| > 1 or the denominator 12 * beta * ttm is zero, and uses the full
\* square-root approximation whenever |beta| <= 1, |beta| = 1 included, and the
\* denominator is not zero.
C18_SimplifiedAboveOne ==
    (entry = "v0_implied" /\ pc = "done") =>
        /\ exc = "none"
        /\ (Abs(arg.beta) > One \/ arg.beta * arg.ttm = 0) =>
               frame.ret.formula = "simple" /\ frame.ret.v0 = SimplifiedV0
        /\ (Abs(arg.beta) <= One /\ arg.beta * arg.ttm # 0) => frame.ret.formula = "full"

\* the full approximation has returned a value for a leverage of magnitude one
C18_Witness ==
    /\ entry = "v0_implied"
    /\ pc = "done"
    /\ Abs(arg.beta) = One
    /\ frame.ret.formula = "full"
    /\ frame.ret.v0 # <<>>
    /\ frame.ret.v0 # SimplifiedV0

----------------------------------------------------------------------------
(* The flat backbone *)

\* one step of the scheme without a backbone multiplier for one path: st holds
\* x0, vol_var, sigma0, qvar0 of the path, w0 and w1 its scaled increments
NoBackboneStepPath(st, par, is_spot_measure, dt, w0, w1) ==
    LET s2dt == MulDt(Mul(st.sigma0, st.sigma0), dt)
        sgn  == IF is_spot_measure THEN -1 ELSE 1
        adj  == IF is_spot_measure THEN 0 ELSE par.beta
        v1   == st.vol_var + MulDt(LogVolDrift(par, adj, st.sigma0), dt)
                  + Mul(par.beta, w0) + Mul(par.volvol, w1)
        s1   == Exp(v1)
    IN  [x0 |-> st.x0 + Mul(sgn * Half, s2dt) + Mul(st.sigma0, w0),
         vol_var |-> v1, sigma0 |-> s1,
         qvar0 |-> st.qvar0 + Mul(Half, s2dt + MulDt(Mul(s1, s1), dt))]

RECURSIVE NoBackboneRunPath(_, _, _, _, _, _, _, _)
\* the steps from t on of the scheme without a backbone multiplier for path q
NoBackboneRunPath(st, par, is_spot_measure, dt, W0_, W1_, q, t) ==
    IF t > Len(W0_) THEN st
    ELSE NoBackboneRunPath(
             NoBackboneStepPath(st, par, is_spot_measure, dt, W0_[t][q], W1_[t][q]),
             par, is_spot_measure, dt, W0_, W1_, q, t + 1)

\* the terminal (x0, sigma0, qvar0) of the scheme without a backbone multiplier
\* from the state start on the increments W0, W1 of step size dt
NoBackboneTerminal(start, par, is_spot_measure, dt, W0, W1) ==
    LET sdt == SqrtDt(dt)
        r   == [q \in 1..Len(start.x0) |->
                   NoBackboneRunPath([x0 |-> start.x0[q], vol_var |-> Log(start.sigma0[q]),
                                      sigma0 |-> start.sigma0[q], qvar0 |-> start.qvar0[q]],
                                     par, is_spot_measure, dt,
                                     Scaled(W0, sdt), Scaled(W1, sdt), q, 1)]
    IN  [x0 |-> [q \in 1..Len(r) |-> r[q].x0], sigma0 |-> [q \in 1..Len(r) |-> r[q].sigma0],
         qvar0 |-> [q \in 1..Len(r) |-> r[q].qvar0]]

\* C19: a flat backbone of 1.0 is the identity: on the same starting state,
\* parameters and supplied increments every call of simulate_logsv_x_vol_terminal
\* with vol_backbone_eta = 1.0 returns the terminal log-price, vol and quadratic
\* variation of the scheme without a backbone multiplier, under either measure,
\* and the fixed-randoms chain pricer returns the prices of those terminal states.
C19_FlatBackboneIsIdentity ==
    (entry = "logsv_mc_chain_pricer_fixed_randoms" /\ arg.eta = One) =>
        \A k \in 1..idx :
            LET ref == NoBackboneTerminal(sim_calls[k].start, arg.par, arg.is_spot_measure,
                                          dts[k], W0s[k], W1s[k])
            IN  /\ sim_calls[k].ret = ref
                /\ option_prices_ttm[k] =
                       ComputeMcVarsPayoff(ref.x0, ref.sigma0, ref.qvar0, arg.ttms[k])

\* the fixed-randoms chain pricer has priced a chain of several maturities with
\* eta = 1.0 under the non-spot measure, the log-price having moved
C19_Witness ==
    /\ entry = "logsv_mc_chain_pricer_fixed_randoms"
    /\ arg.eta = One
    /\ ~arg.is_spot_measure
    /\ pc = "done"
    /\ idx >= 2
    /\ \E q \in 1..Len(x0) : x0[q] # 0 /\ qvar0[q] > 0

----------------------------------------------------------------------------
(* The parameter objects of a calibration *)

\* the parameters a calibration type holds fixed and the position of each fitted
\* parameter in the trial vector
FixedFields(model_calibration_type) ==
    CASE model_calibration_type = "PARAMS4" -> {"kappa1", "kappa2"}
      [] model_calibration_type = "PARAMS_WITH_VARSWAP_FIT" -> {"sigma0", "theta", "kappa1", "kappa2"}
      [] OTHER -> {}

FittedFields(model_calibration_type) ==
    CASE model_calibration_type = "PARAMS4" -> <<"sigma0", "theta", "beta", "volvol">>
      [] model_calibration_type = "PARAMS5" -> <<"sigma0", "theta", "kappa1", "beta", "volvol">>
      [] OTHER -> <<"beta", "volvol">>

\* the parameter object of the trial vector pars: fitted parameters from pars,
\* fixed ones from params0, kappa2 = kappa1 / theta where it is neither
OwnParams(pars, a) ==
    LET fitted == FittedFields(a.model_calibration_type)
        at(f)  == CHOOSE i \in 1..Len(fitted) : fitted[i] = f
        val(f) == IF f \in FixedFields(a.model_calibration_type) THEN a.params0[f]
                  ELSE pars[at(f)]
    IN  [f \in {"sigma0", "theta", "kappa1", "kappa2", "beta", "volvol"} |->
            IF f = "kappa2" /\ a.model_calibration_type = "PARAMS5"
            THEN Div(val("kappa1"), val("theta"))
            ELSE val(f)]

\* the value of the constraint named fun on the parameter object params
OwnConstraint(fun, params) ==
    CASE fun = "martingale_measure" -> params.kappa2 - params.beta
      [] fun = "inverse_measure" -> params.kappa2 - 2 * params.beta
      [] OTHER -> params.kappa1 + Mul(params.kappa2, params.theta)
                    - (3 * (Mul(params.beta, params.beta) + Mul(params.volvol, params.volvol))) \div 2

\* what is returned is built from res.x with the fixed parameters of params0, and
\* every constraint evaluation is made on the object of its own trial vector
ParamsBuiltPerEvaluation ==
    Calibrating =>
        /\ pc = "returned" => fit_params = OwnParams(res.x, arg)
        /\ pc = "returned" =>
               \A f \in FixedFields(arg.model_calibration_type) : fit_params[f] = arg.params0[f]
        /\ \A i \in 1..Len(evals) : \A c \in 1..Len(constraints) :
               evals[i].cons[c] = OwnConstraint(constraints[c], OwnParams(evals[i].pars, arg))

\* C20: calibrate_model_params_to_chain never changes params0 (nor any other
\* argument); what it returns is built from res.x, the parameters the calibration
\* type holds fixed being those of params0 (kappa1, kappa2 under PARAMS4; sigma0,
\* theta, kappa1, kappa2 under PARAMS_WITH_VARSWAP_FIT); every objective or
\* constraint evaluation builds its parameters from its own trial vector.
C20_CalibrationBuildsNewParams ==
    /\ []ParamsBuiltPerEvaluation
    /\ [][Calibrating => arg' = arg]_vars

\* a PARAMS4 calibration under constraints has returned, after further trial
\* vectors than p0, parameters that differ from params0
C20_Witness ==
    /\ Calibrating
    /\ pc = "returned"
    /\ arg.model_calibration_type = "PARAMS4"
    /\ constraints # <<>>
    /\ Len(evals) >= 2
    /\ fit_params # arg.params0
    /\ fit_params.kappa2 # Div(fit_params.kappa1, fit_params.theta)

----------------------------------------------------------------------------
(* The measure flag in the Monte-Carlo simulators *)

\* the pair (alpha, adj) a simulator holds after its measure branch
MeasureOf(f) == [alpha |-> f.alpha, adj |-> f.adj]

\* the vol drift term adj * sigma of one step at vol s
VolDriftTerm(adj, s) == Mul(adj, s)

\* the terminal simulator agrees with simulate_vol_paths on the measure flag
SameAsVolPaths(f) ==
    LET m == VolPathsMeasure(arg.is_spot_measure, f.par.beta)
    IN  /\ MeasureOf(f) = m
        /\ \A q \in 1..f.nb_path :
               VolDriftTerm(f.adj, f.sigma0[q]) = VolDriftTerm(m.adj, f.sigma0[q])

\* C21: the measure flag selects the same drift adjustment in every simulator:
\* (alpha, adj) = (-1, 0) under the spot measure and (1, beta) otherwise, so
\* that simulate_logsv_x_vol_terminal applies the vol drift term adj * sigma
\* of simulate_vol_paths at every step, whatever the backbone multiplier
C21_SameDriftAdjustment ==
    /\ frame.fn = "simulate_vol_paths" =>
           MeasureOf(frame) = IF arg.is_spot_measure
                              THEN [alpha |-> -One, adj |-> 0]
                              ELSE [alpha |-> One, adj |-> frame.par.beta]
    /\ (entry \in McEntries /\ frame.fn = "simulate_logsv_x_vol_terminal") =>
           SameAsVolPaths(frame)

\* the two simulators do agree when the backbone multiplier is one
SameDriftAdjustmentFlatBackbone ==
    (entry \in McEntries /\ frame.fn = "simulate_logsv_x_vol_terminal" /\ arg.eta = One) =>
        SameAsVolPaths(frame)

----------------------------------------------------------------------------
(* logsv_pdfs: the density of a transform variable *)

\* the variable types a caller can hand over: the three of VariableType and a
\* value that is none of them
PdfVariableTypes == VariableTypes \cup {"OTHER"}

\* the points at which the density is read
space_grid == <<-Half, 0, Half>>

\* afe.get_init_conditions_a: a coefficient state of n_terms per grid point
GetInitConditionsA(g, n_terms, variable_type) ==
    [p \in 1..Len(g.phi_grid) |-> Vec(n_terms, 0)]

\* the branch on the variable type with the scale of Q_VAR left at one
PdfNormalisationUnscaled(variable_type, g, par, ttm) ==
    IF variable_type = "LOG_RETURN"
    THEN <<[transform_var_grid |-> g.phi_grid, shift |-> 0, scale |-> One]>>
    ELSE IF variable_type = "Q_VAR"
    THEN <<[transform_var_grid |-> g.psi_grid, shift |-> 0, scale |-> One]>>
    ELSE IF variable_type = "SIGMA"
    THEN <<[transform_var_grid |-> g.theta_grid, shift |-> par.theta, scale |-> One]>>
    ELSE <<>>

\* the branch on the variable type: the grid slice, shift and scale of the
\* read-out, <<>> where the branch raises NotImplementedError
PdfNormalisation(variable_type, g, par, ttm) ==
    IF variable_type = "LOG_RETURN"
    THEN <<[transform_var_grid |-> g.phi_grid, shift |-> 0, scale |-> One]>>
    ELSE IF variable_type = "Q_VAR"
    THEN <<[transform_var_grid |-> g.psi_grid, shift |-> 0, scale |-> Div(One, Years(ttm))]>>
    ELSE IF variable_type = "SIGMA"
    THEN <<[transform_var_grid |-> g.theta_grid, shift |-> par.theta, scale |-> One]>>
    ELSE <<>>

\* mgfp.pdf_with_mgf_grid: the density at the normalised points (x - shift) * scale
\* read off the log-MGF grid
PdfWithMgfGrid(lmg, transform_var_grid, sg, shift, scale) ==
    [j \in 1..Len(sg) |->
        Abs(SumSeq([p \in 1..Len(lmg) |->
                Mul(transform_var_grid[p].re, Mul(sg[j] - shift, scale)) + lmg[p] \div Scale])
            \div Len(lmg))]

PdfArgs ==
    [ttm : AfeTtmSet, par : ParamSet, is_spot_measure : BOOLEAN,
     expansion_order : ExpansionOrders, variable_type : PdfVariableTypes,
     vol_scaler : {<<>>, <<Half \div 2>>}]

InitPdf ==
    /\ entry = "logsv_pdfs"
    /\ arg \in PdfArgs
    /\ rng = 0
    /\ pc = "start"
    /\ exc = "none"
    /\ InitChainLocals
    /\ InitAfeLocals
    /\ InitCalibLocals

\* the starting values: vol_scaler, the transform grid and the initial
\* coefficient state
PdfStart ==
    /\ entry = "logsv_pdfs"
    /\ pc = "start"
    /\ LET vs == IF arg.vol_scaler = <<>>
                 THEN SetVolScaler(arg.par.sigma0, arg.ttm)
                 ELSE arg.vol_scaler[1]
           g  == GetTransformVarGrid(arg.variable_type, arg.is_spot_measure, vs)
       IN  /\ vol_scaler' = vs
           /\ grids' = g
           /\ a_t0' = GetInitConditionsA(g, GetExpansionN(arg.expansion_order),
                                         arg.variable_type)
    /\ grid_builds' = grid_builds + 1
    /\ pc' = "mgf"
    /\ UNCHANGED <<entry, exc, arg, rng, chain_vars, log_mgf_grid, model_prices_ttms,
                   calib_vars>>

\* the engine call over the whole maturity
PdfEngineCall ==
    /\ entry = "logsv_pdfs"
    /\ pc = "mgf"
    /\ LET r == ComputeLogsvAMgfGrid(arg.ttm, grids, a_t0, arg.par, One,
                                     arg.expansion_order, arg.is_spot_measure)
       IN  /\ a_t0' = r.a_t0
           /\ log_mgf_grid' = r.log_mgf_grid
    /\ pc' = "readout"
    /\ UNCHANGED <<entry, exc, arg, rng, chain_vars, vol_scaler, grids, grid_builds,
                   model_prices_ttms, calib_vars>>

\* the branch on the variable type, the read-out and the division by scale;
\* frame holds the read-out's arguments and the density returned
PdfReadout ==
    /\ entry = "logsv_pdfs"
    /\ pc = "readout"
    /\ LET n == PdfNormalisation(arg.variable_type, grids, arg.par, arg.ttm)
       IN  IF n = <<>>
           THEN /\ pc' = "raised"
                /\ exc' = "NotImplementedError"
                /\ frame' = [fn |-> "logsv_pdfs", call |-> <<>>, ret |-> <<>>]
           ELSE LET pdf == PdfWithMgfGrid(log_mgf_grid, n[1].transform_var_grid,
                                          space_grid, n[1].shift, n[1].scale)
                IN  /\ pc' = "done"
                    /\ exc' = exc
                    /\ frame' = [fn |-> "logsv_pdfs", call |-> n,
                                 ret |-> <<[j \in 1..Len(pdf) |-> Div(pdf[j], n[1].scale)]>>]
    /\ UNCHANGED <<entry, arg, rng, W0s, W1s, dts, nb_steps, x0, sigma0, qvar0, ttm0, idx,
                   sim_calls, option_prices_ttm, afe_vars, calib_vars>>

NextPdf ==
    \/ PdfStart
    \/ PdfEngineCall
    \/ PdfReadout

SpecPdf == InitPdf /\ [][NextPdf]_vars

\* the density logsv_pdfs has returned, <<>> while or where it has returned none
PdfReturned == IF frame = NoFrame THEN <<>> ELSE frame.ret

\* C22: logsv_pdfs supports exactly the three variable types, each with its own
\* grid slice and normalisation: LOG_RETURN reads the log-return grid with
\* shift 0 and scale 1, Q_VAR the quadratic-variation grid with shift 0 and
\* scale 1 / ttm, SIGMA the volatility grid with shift theta and scale 1; any
\* other type raises NotImplementedError and no density is returned
C22_PdfVariableTypes ==
    (entry = "logsv_pdfs" /\ pc \in {"done", "raised"}) =>
        /\ arg.variable_type = "LOG_RETURN" =>
               /\ pc = "done" /\ PdfReturned # <<>>
               /\ frame.call = <<[transform_var_grid |-> grids.phi_grid, shift |-> 0,
                                  scale |-> One]>>
        /\ arg.variable_type = "Q_VAR" =>
               /\ pc = "done" /\ PdfReturned # <<>>
               /\ frame.call[1].transform_var_grid = grids.psi_grid
               /\ frame.call[1].shift = 0
               /\ Mul(frame.call[1].scale, Years(arg.ttm)) \in (One - 10)..One
        /\ arg.variable_type = "SIGMA" =>
               /\ pc = "done" /\ PdfReturned # <<>>
               /\ frame.call = <<[transform_var_grid |-> grids.theta_grid,
                                  shift |-> arg.par.theta, scale |-> One]>>
        /\ arg.variable_type \notin VariableTypes =>
               /\ pc = "raised" /\ exc = "NotImplementedError"
               /\ PdfReturned = <<>>

\* a quadratic-variation density has been returned, read off the
\* quadratic-variation grid with a scale above one
C22_Witness ==
    /\ entry = "logsv_pdfs"
    /\ pc = "done"
    /\ arg.variable_type = "Q_VAR"
    /\ frame.call[1].scale > One
    /\ frame.call[1].transform_var_grid = grids.psi_grid
    /\ grids.psi_grid # grids.phi_grid
    /\ PdfReturned # <<>>

----------------------------------------------------------------------------
(* set_vol_scaler: the horizon of the scale of the transform grid *)

\* the vol_scaler a call that was given none has computed, <<>> otherwise
ScalerComputed ==
    IF entry = "logsv_chain_pricer" /\ arg.vol_scaler = <<>> /\ pc # "start"
    THEN <<vol_scaler>> ELSE <<>>

\* C24: set_vol_scaler returns sigma0 * sqrt(tau) with tau = max(min(ttm), 0.5/12):
\* the horizon of the scaler is the shortest maturity and never shorter than
\* two weeks
C24_VolScalerFloor ==
    ScalerComputed # <<>> =>
        LET tau == Max(Years(SeqMin(arg.ttms)), Half \div 12)
        IN  /\ tau >= Half \div 12
            /\ ScalerComputed[1] = Mul(arg.par.sigma0, Sqrt(tau))

\* what the scaler is: two weeks is the longest horizon it uses
VolScalerCap ==
    ScalerComputed # <<>> =>
        /\ ScalerComputed[1] <= Mul(arg.par.sigma0, Sqrt(Half \div 12))
        /\ ScalerComputed[1] <= Mul(arg.par.sigma0, Sqrt(Years(SeqMin(arg.ttms))))

----------------------------------------------------------------------------
(* The number of steps of LogSVPricer.simulate_vol_paths *)

\* the vol table a returned call of LogSVPricer.simulate_vol_paths holds
VolTable == IF frame.fn = "simulate_vol_paths" THEN frame.sigma_t ELSE frame.X_out

\* a call of LogSVPricer.simulate_vol_paths with nb_steps given has returned
MethodReturnedWithNbSteps ==
    /\ entry = "LogSVPricer.simulate_vol_paths"
    /\ pc = "done"
    /\ arg.nb_steps # <<>>

\* C25: LogSVPricer.simulate_vol_paths called with nb_steps = n and any horizon
\* ttm > 0 simulates exactly n steps: the returned vol table has n + 1 rows, its
\* first row is the initial vol of every path, and the returned time grid has
\* the same n + 1 points, from 0 to ttm
C25_ExactlyNbSteps ==
    MethodReturnedWithNbSteps =>
        /\ Len(VolTable) = arg.nb_steps[1] + 1
        /\ VolTable[1] = Vec(arg.nb_path, arg.par.sigma0)
        /\ frame.nb_steps = arg.nb_steps[1]
        /\ frame.grid_end = arg.ttm

\* what the method does simulate: ceil(n * ttm) steps, n taken as steps per year
StepsPerYearIsNbSteps ==
    MethodReturnedWithNbSteps =>
        /\ Len(VolTable) = SetTimeGrid(arg.ttm, arg.nb_steps[1]).nb_steps + 1
        /\ VolTable[1] = Vec(arg.nb_path, arg.par.sigma0)
        /\ frame.nb_steps = SetTimeGrid(arg.ttm, arg.nb_steps[1]).nb_steps
        /\ frame.grid_end = arg.ttm

----------------------------------------------------------------------------
(* The slices of the frozen randoms of the rough chain pricer *)

\* the chain is priced on the randoms of get_randoms_roughvol drawn for 360
\* steps per year, with arguments the simulator's other assertions accept
RoughChainOnDefaultGrid ==
    /\ entry = "logsv_roughmc_chain_pricer_fixed_randoms"
    /\ arg.nb_steps_per_year = NbStepsPerYearDefault
    /\ arg.eta = One
    /\ arg.is_spot_measure

\* the slice of call k has the rows of the grid the simulator builds for it
SliceMatchesGrid(k) ==
    sim_calls[k].nb_rows = SetTimeGrid(sim_calls[k].ttm, NbStepsPerYearDefault).nb_steps

\* C26: run on the W0, W1, dts and nb_steps of get_randoms_roughvol for the same
\* strictly increasing maturities, of any chain length, and 360 steps per year,
\* the shape assertions of simulate_rough_logsv_x_vol_terminal hold at every
\* maturity: the slice passed for maturity j has exactly as many step rows as
\* the time grid the simulator builds for that call
C26_SlicesMatchGrid ==
    RoughChainOnDefaultGrid =>
        /\ \A k \in 1..Len(sim_calls) : SliceMatchesGrid(k)
        /\ exc # "AssertionError"

\* chains of one or two maturities are sliced as the simulator expects
SlicesMatchGridShortChains ==
    (RoughChainOnDefaultGrid /\ Len(arg.ttms) <= 2) =>
        /\ \A k \in 1..Len(sim_calls) : SliceMatchesGrid(k)
        /\ exc # "AssertionError"

----------------------------------------------------------------------------
(* The forward of the implied-vol inversion of calc_mc_vols *)

\* price, vol and band of tenor k inferred with the forward f alone
TenorVolsWithForward(k, f) ==
    TenorVols(x0, arg.ttm, arg.tenors[k], ArgForwards(arg)[k], arg.nb_path, <<f>>)

\* C27: calc_mc_vols infers the Monte-Carlo implied vols (mid, upper and lower
\* band) of each tenor from that tenor's own forward: for tenor index k the
\* forward of the inversion is forwards[k], aligned with strikes_ttms[k]
C27_OwnForward ==
    entry = "calc_mc_vols" =>
        \A k \in 1..Len(option_prices_ttm) :
            option_prices_ttm[k] = TenorVolsWithForward(k, ArgForwards(arg)[k])

\* what the inversion is given: the forward of the first tenor, for every tenor
FirstForwardForEveryTenor ==
    entry = "calc_mc_vols" =>
        \A k \in 1..Len(option_prices_ttm) :
            option_prices_ttm[k] = TenorVolsWithForward(k, ArgForwards(arg)[1])

----------------------------------------------------------------------------
(* The log-price update of the two terminal simulators *)

\* the log-price update of one step of simulate_logsv_x_vol_terminal under the
\* measure of drift coefficient alpha, from log-price x and vol sigma
LogPriceStep(alpha, x, sigma, eta, dt, w0) ==
    x + Mul(Mul(alpha, Half), MulDt(Mul(Mul(Mul(eta, eta), sigma), sigma), dt))
      + Mul(Mul(eta, sigma), w0)

\* a pass of the time loop of the rough terminal simulator
RoughStepTaken ==
    /\ frame.fn = "simulate_rough_logsv_x_vol_terminal"
    /\ frame'.fn = "simulate_rough_logsv_x_vol_terminal"
    /\ frame'.i_ = frame.i_ + 1

\* a pass of the time loop of the standard terminal simulator
TerminalStepTaken ==
    /\ frame.fn = "simulate_logsv_x_vol_terminal"
    /\ frame'.fn = "simulate_logsv_x_vol_terminal"
    /\ frame'.t_ = frame.t_ + 1

\* the standard simulator's update is LogPriceStep with alpha = -1 under the
\* spot measure and alpha = 1 under the other measure
StandardStepIsLogPriceStep ==
    [][TerminalStepTaken =>
          \A q \in 1..frame.nb_path :
              frame'.x0[q] = LogPriceStep(IF arg.is_spot_measure THEN -One ELSE One,
                                 frame.x0[q], frame.sigma0[q], frame.eta, frame.dt,
                                 frame.W0_[frame'.t_][q])]_vars

\* C28: under the spot measure the rough terminal simulator applies the
\* per-step log-price update of the standard terminal simulator,
\* x <- x - 0.5 * eta^2 * sigma^2 * dt + eta * sigma * dW0 (alpha = -1), with
\* sigma the vol at the start of the step
C28_RoughStepIsStandardStep ==
    [][RoughStepTaken =>
          \A q \in 1..frame.nb_path :
              frame'.x_i[q] = LogPriceStep(-One, frame.x_i[q], frame.sigma_i[q], frame.eta,
                                  frame.dt, frame.dW0s[frame'.i_][q])]_vars

\* what the rough simulator applies: the update of drift coefficient alpha = 1
RoughStepIsOtherMeasureStep ==
    [][RoughStepTaken =>
          \A q \in 1..frame.nb_path :
              frame'.x_i[q] = LogPriceStep(One, frame.x_i[q], frame.sigma_i[q], frame.eta,
                                  frame.dt, frame.dW0s[frame'.i_][q])]_vars

----------------------------------------------------------------------------
(* Accumulated quadratic variation *)

\* no path's qvar falls in a pass of the time loop of a terminal simulator
QvarStepsNonDecreasing ==
    /\ TerminalStepTaken =>
           \A q \in 1..frame.nb_path : frame'.qvar0[q] >= frame.qvar0[q]
    /\ RoughStepTaken =>
           \A q \in 1..frame.nb_path : frame'.qvar_i[q] >= frame.qvar_i[q]

\* no path's qvar at a maturity of a chain is below its qvar at the maturity before
QvarChainNonDecreasing ==
    entry \in McEntries =>
        \A k \in 2..Len(sim_calls) :
            sim_calls[k].ret # <<>> =>
                \A q \in 1..Len(sim_calls[k].ret.qvar0) :
                    sim_calls[k].ret.qvar0[q] >= sim_calls[k - 1].ret.qvar0[q]

\* C29: accumulated quadratic variation never decreases: every step of a
\* terminal simulator adds 0.5 * eta^2 * (sigma_before^2 + sigma_after^2) * dt >= 0
\* to qvar, so qvar is non-decreasing step by step and, along a chain priced by
\* logsv_mc_chain_pricer or logsv_mc_chain_pricer_fixed_randoms, the qvar of
\* every path at maturity i+1 is >= its qvar at maturity i
C29_QvarNonDecreasing ==
    /\ [][QvarStepsNonDecreasing]_vars
    /\ []QvarChainNonDecreasing

\* within a simulation qvar never falls
QvarNonDecreasingWithinSimulation == [][QvarStepsNonDecreasing]_vars

\* along a chain of several paths qvar never falls
QvarChainNonDecreasingSeveralPaths ==
    (entry \in McEntries /\ arg.nb_path >= 2) => QvarChainNonDecreasing

----------------------------------------------------------------------------
(* Undefined model vols in the calibration objective *)

\* the model implied vols of the quotes at the trial vector pars, flattened
TrialModelVols(pars) ==
    ToFlatNpArray(ComputeModelIvolsForChain(arg.option_chain,
        ParseModelParams(pars, arg.model_calibration_type, arg.params0), vol_scaler))

\* the weighted squared residuals of the quotes whose model vol is defined
DefinedResiduals(pars) ==
    LET mv     == TrialModelVols(pars)
        market == ToFlatNpArray(arg.option_chain.market_vols)
    IN  [i \in 1..Len(market) |->
            IF mv[i] > 0
            THEN Mul(weights[i], Mul(mv[i] - market[i], mv[i] - market[i]))
            ELSE 0]

\* C30: in the calibration objective a quote whose model implied vol is
\* undefined (NaN) contributes zero to the weighted sum of squared implied-vol
\* residuals, so the value returned to the optimizer is a number (never NaN)
\* and is >= 0 for non-negative weights
C30_NanQuotesContributeZero ==
    Calibrating =>
        \A e \in 1..Len(evals) :
            /\ evals[e].value >= 0
            /\ evals[e].value = SumSeq(DefinedResiduals(evals[e].pars))

\* an objective value of a trial vector at which one quote has no model vol and
\* the other quotes give a positive sum
C30_Witness ==
    /\ Calibrating
    /\ \E e \in 1..Len(evals) :
          /\ \E i \in 1..Len(TrialModelVols(evals[e].pars)) :
                 TrialModelVols(evals[e].pars)[i] <= 0
          /\ \E i \in 1..Len(TrialModelVols(evals[e].pars)) :
                 TrialModelVols(evals[e].pars)[i] > 0
          /\ evals[e].value > 0
          /\ \A i \in 1..Len(weights) : weights[i] >= 0

====
